---- MODULE Spec2Model ----
(***************************************************************************)
(* State-machine model of the STM32F411 DMLS audio processor firmware:     *)
(* routing matrix, delay line, limiter, compressor, parametric EQ,         *)
(* crossover, biquad design and the audio driver's output stage.           *)
(*                                                                         *)
(* Floating-point samples and gains are fixed-point integers: the float    *)
(* 1.0f is the integer ONE, so a sample s stands for s / ONE.  Products    *)
(* are rescaled by ONE and rounded to the nearest step.                    *)
(***************************************************************************)
EXTENDS Integers, Sequences, FiniteSets, TLC

\* ---------------------------------------------------------------------
\* Fixed-point arithmetic
\* ---------------------------------------------------------------------

\* Resolution of the fixed-point grid: the integer that stands for 1.0f.
ONE == 4

Abs(x) == IF x < 0 THEN -x ELSE x

\* Division rounded to the nearest integer, halves away from zero (b > 0).
RoundDiv(a, b) == IF a >= 0 THEN (2 * a + b) \div (2 * b)
                  ELSE -((2 * (-a) + b) \div (2 * b))

\* Division truncated toward zero, as a C cast to int32_t truncates (b > 0).
TruncDiv(a, b) == IF a >= 0 THEN a \div b ELSE -((-a) \div b)

\* Product of two fixed-point numbers.
FMul(a, b) == RoundDiv(a * b, ONE)

MIN(a, b) == IF a < b THEN a ELSE b
MAX(a, b) == IF a > b THEN a ELSE b

\* CLAMP(x, min, max) == MIN(MAX(x, min), max)
CLAMP(x, lo, hi) == MIN(MAX(x, lo), hi)

\* ---------------------------------------------------------------------
\* Program constants
\* ---------------------------------------------------------------------

AUDIO_INPUT_CHANNELS == 2
AUDIO_OUTPUT_CHANNELS == 4
AUDIO_MAX_VALUE == 8388607

AUDIO_SOURCE_NONE == 0
AUDIO_SOURCE_IN1 == 1
AUDIO_SOURCE_IN2 == 2
AUDIO_SOURCE_IN1_IN2_MIX == 3
AUDIO_SOURCE_IN1_ONLY_LEFT == 4
AUDIO_SOURCE_IN1_ONLY_RIGHT == 5
AUDIO_SOURCE_IN2_ONLY_LEFT == 6
AUDIO_SOURCE_IN2_ONLY_RIGHT == 7
AUDIO_SOURCE_MAX == 8

OutChannels == 0 .. (AUDIO_OUTPUT_CHANNELS - 1)
InChannels == 0 .. (AUDIO_INPUT_CHANNELS - 1)

\* Longest delay, in samples, the delay line is allocated for in the model.
MaxDelaySamples == 1

\* ---------------------------------------------------------------------
\* Inputs of the environment
\* ---------------------------------------------------------------------

\* Channel indices the control API is called with: a valid channel and the
\* first invalid one.
CallChannels == {0, AUDIO_OUTPUT_CHANNELS}

\* The valid channel among them.
ValidCallChannels == {c \in CallChannels : c < AUDIO_OUTPUT_CHANNELS}

\* 24-bit codes the ADC delivers.
InputCodes == {0, AUDIO_MAX_VALUE}

\* Linear gains a caller passes to the driver (not validated by the driver).
CallGains == {-(2 * ONE), 3 * ONE}

\* Pointers: NULL, or a pointer to the value v.
NULL == [null |-> TRUE, v |-> 0]
Ptr(x) == [null |-> FALSE, v |-> x]


\* Result codes
HAL_OK == "HAL_OK"
HAL_ERROR == "HAL_ERROR"
VOID == "void"

\* ---------------------------------------------------------------------
\* State
\* ---------------------------------------------------------------------

VARIABLES
  audioRoutingConfig,        \* audio_routing.c: routing matrix configuration
  audioStatus,               \* audio_driver.c: driver gains and mutes
  outputDmaBuffer,           \* audio_driver.c: the output half-buffer last written
  rmsValues,                 \* audio_driver.c: the smoothed RMS per output channel
  delayInstances,            \* delay_init.c: one delay line per output channel
  isDelaySystemInitialized,  \* delay_init.c
  interpolationMode,         \* delay_proc.c: the interpolation of every delay line
  limiterState,              \* limiter_proc.c: run-time state per output channel
  limiterConfig,             \* limiter_proc.c: the configuration Limiter_GetConfig returns
  limiterInitialized,        \* limiter_proc.c
  limiterBypass,             \* limiter_init.c: the bypass flag of every instance
  crossoverConfig,           \* crossover_filter.c: mode, type, cutoffs, order
  highpassFilters,           \* crossover_filter.c: one filter chain per channel
  lowpassFilters,            \* crossover_filter.c
  bandpassHighFilters,       \* crossover_filter.c
  bandpassLowFilters,        \* crossover_filter.c
  PEQBands,                  \* peq_filter.c: band configuration per channel and band
  PEQBiquadStates,           \* peq_filter.c: one biquad per channel and band
  compressorState,           \* compressor_proc.c: parameters and envelope per channel
  rmsBuffer,                 \* compressor_proc.c: the squares in the RMS window
  rmsBufferIndex,            \* compressor_proc.c
  compressorParams,          \* compressor_init.c: the parameters per channel
  compressorCoeffState,      \* compressor_init.c: its compressorState, per channel
  peqConfig,                 \* peq_config.c: band configuration per channel and band
  peqInstances,              \* peq_init.c: configuration, coefficients and history per band
  peqInitialized,            \* peq_init.c: set by PEQ_Init
  crossoverFilters,          \* crossover_init.c: settings and coefficient arrays per channel
  crossoverIsInitialized,    \* crossover_init.c: its isInitialized
  crossoverSettings,         \* crossover_config.c: its crossoverConfig, cutoffs and band-pass flag per channel
  filterState,               \* a BiquadState_t of a caller of biquad.c
  compConfig,                \* a CompressorConfig_TypeDef of a caller of compressor_config.c
  compState,                 \* the CompressorState_TypeDef of that caller
  pc,                        \* main.c: where the main loop is, or the step of a call in progress
  audioProcessFlag,          \* main.c: set by the audio interrupt
  uiUpdateFlag,              \* main.c: set by the TIM6 interrupt
  inputBufferState,          \* audio_driver.c: the half of the input buffer completed last
  inputDmaBuffer,            \* audio_driver.c: the number of the block each half holds
  processedBlocks,           \* the numbers of the blocks the pipeline has read, in sequence
  sampleUsed,                \* the configuration and coefficients the last processed sample read
  procBuffer,                \* the caller's sample buffer after the last processing call
  call,                      \* the last API call: operation and arguments
  ret                        \* what the last API call returned: a status name, or the text of an integer

audioVars == <<audioRoutingConfig, audioStatus, outputDmaBuffer, rmsValues>>
delayVars == <<delayInstances, isDelaySystemInitialized, interpolationMode>>
limiterVars == <<limiterState, limiterConfig, limiterInitialized, limiterBypass>>
crossoverVars == <<crossoverConfig, highpassFilters, lowpassFilters,
                   bandpassHighFilters, bandpassLowFilters>>
peqVars == <<PEQBands, PEQBiquadStates>>
compressorVars == <<compressorState, rmsBuffer, rmsBufferIndex>>
dspVars == <<crossoverVars, peqVars, compressorVars>>
compressorInitVars == <<compressorParams, compressorCoeffState>>
callerVars == <<filterState, compConfig, compState>>
peqInitVars == <<peqInstances, peqInitialized>>
crossoverInitVars == <<crossoverFilters, crossoverIsInitialized>>
controlVars == <<compressorInitVars, peqConfig, peqInitVars, crossoverInitVars, crossoverSettings, callerVars>>
dmaVars == <<inputBufferState, inputDmaBuffer, processedBlocks>>
mainVars == <<pc, audioProcessFlag, uiUpdateFlag, sampleUsed, dmaVars>>
notAudio == <<delayVars, limiterVars, dspVars, controlVars, mainVars>>
notDelay == <<audioVars, limiterVars, dspVars, controlVars, mainVars>>
notLimiter == <<audioVars, delayVars, dspVars, controlVars, mainVars>>
notDsp == <<audioVars, delayVars, limiterVars, controlVars, mainVars>>
notControl == <<audioVars, delayVars, limiterVars, dspVars, mainVars>>
notCrossover == <<notDsp, peqVars, compressorVars>>
notPeq == <<notDsp, crossoverVars, compressorVars>>
notCompressor == <<notDsp, crossoverVars, peqVars>>
vars == <<audioVars, delayVars, limiterVars, dspVars, controlVars, mainVars,
          procBuffer, call, ret>>

\* ---------------------------------------------------------------------
\* Audio routing matrix (audio_routing.c)
\* ---------------------------------------------------------------------

AudioRouting_Init ==
  [ source        |-> [i \in OutChannels |->
                         IF i % 2 = 0 THEN AUDIO_SOURCE_IN1 ELSE AUDIO_SOURCE_IN2],
    mixLevel      |-> [i \in OutChannels |-> ONE \div 2],
    outputMute    |-> [i \in OutChannels |-> 0],
    inputGain     |-> [i \in InChannels |-> ONE],
    stereoLink    |-> [i \in 0 .. (AUDIO_OUTPUT_CHANNELS \div 2 - 1) |-> 1],
    monoSumInputs |-> 0 ]

PairedChannel(ch) == IF ch % 2 = 0 THEN ch + 1 ELSE ch - 1

PairedSource(source) ==
  CASE source = AUDIO_SOURCE_IN1 -> AUDIO_SOURCE_IN2
    [] source = AUDIO_SOURCE_IN2 -> AUDIO_SOURCE_IN1
    [] source = AUDIO_SOURCE_IN1_ONLY_LEFT -> AUDIO_SOURCE_IN1_ONLY_RIGHT
    [] source = AUDIO_SOURCE_IN1_ONLY_RIGHT -> AUDIO_SOURCE_IN1_ONLY_LEFT
    [] source = AUDIO_SOURCE_IN2_ONLY_LEFT -> AUDIO_SOURCE_IN2_ONLY_RIGHT
    [] source = AUDIO_SOURCE_IN2_ONLY_RIGHT -> AUDIO_SOURCE_IN2_ONLY_LEFT
    [] OTHER -> source

\* void AudioRouting_ConfigOutput(outputChannel, source)
AudioRouting_ConfigOutput(outputChannel, source) ==
  /\ call' = [op |-> "AudioRouting_ConfigOutput", index |-> outputChannel, value |-> source]
  /\ ret' = VOID
  /\ IF outputChannel >= AUDIO_OUTPUT_CHANNELS \/ source >= AUDIO_SOURCE_MAX
     THEN UNCHANGED audioRoutingConfig
     ELSE LET pairIndex == outputChannel \div 2
              src1 == [audioRoutingConfig.source EXCEPT ![outputChannel] = source]
              src2 == IF audioRoutingConfig.stereoLink[pairIndex] = 1
                      THEN [src1 EXCEPT ![PairedChannel(outputChannel)] = PairedSource(source)]
                      ELSE src1
          IN audioRoutingConfig' = [audioRoutingConfig EXCEPT !.source = src2]
  /\ UNCHANGED <<audioStatus, outputDmaBuffer, rmsValues, procBuffer>>
  /\ UNCHANGED notAudio

\* void AudioRouting_SetMute(outputChannel, state)
AudioRouting_SetMute(outputChannel, state) ==
  /\ call' = [op |-> "AudioRouting_SetMute", index |-> outputChannel, value |-> state]
  /\ ret' = VOID
  /\ IF outputChannel >= AUDIO_OUTPUT_CHANNELS
     THEN UNCHANGED audioRoutingConfig
     ELSE LET bit == IF state # 0 THEN 1 ELSE 0
              pairIndex == outputChannel \div 2
              m1 == [audioRoutingConfig.outputMute EXCEPT ![outputChannel] = bit]
              m2 == IF audioRoutingConfig.stereoLink[pairIndex] = 1
                    THEN [m1 EXCEPT ![PairedChannel(outputChannel)] = bit]
                    ELSE m1
          IN audioRoutingConfig' = [audioRoutingConfig EXCEPT !.outputMute = m2]
  /\ UNCHANGED <<audioStatus, outputDmaBuffer, rmsValues, procBuffer>>
  /\ UNCHANGED notAudio

\* void AudioRouting_SetMixLevel(outputChannel, level); LIMIT_FLOAT limits the
\* level to MIX_LEVEL_MIN .. MIX_LEVEL_MAX, 0.0 to 1.0
AudioRouting_SetMixLevel(outputChannel, level) ==
  /\ call' = [op |-> "AudioRouting_SetMixLevel", index |-> outputChannel, value |-> level]
  /\ ret' = VOID
  /\ IF outputChannel >= AUDIO_OUTPUT_CHANNELS
     THEN UNCHANGED audioRoutingConfig
     ELSE LET limited == CLAMP(level, 0, ONE)
              pairIndex == outputChannel \div 2
              l1 == [audioRoutingConfig.mixLevel EXCEPT ![outputChannel] = limited]
              l2 == IF audioRoutingConfig.stereoLink[pairIndex] # 0
                    THEN [l1 EXCEPT ![PairedChannel(outputChannel)] = limited]
                    ELSE l1
          IN audioRoutingConfig' = [audioRoutingConfig EXCEPT !.mixLevel = l2]
  /\ UNCHANGED <<audioStatus, outputDmaBuffer, rmsValues, procBuffer>>
  /\ UNCHANGED notAudio

\* void AudioRouting_SetStereoLink(pairIndex, state)
AudioRouting_SetStereoLink(pairIndex, state) ==
  /\ call' = [op |-> "AudioRouting_SetStereoLink", index |-> pairIndex, value |-> state]
  /\ ret' = VOID
  /\ IF pairIndex >= AUDIO_OUTPUT_CHANNELS \div 2
     THEN UNCHANGED audioRoutingConfig
     ELSE audioRoutingConfig' =
            [audioRoutingConfig EXCEPT !.stereoLink[pairIndex] = IF state # 0 THEN 1 ELSE 0]
  /\ UNCHANGED <<audioStatus, outputDmaBuffer, rmsValues, procBuffer>>
  /\ UNCHANGED notAudio

\* static void ValidateRoutingConfig(void), on the configuration just copied
ValidateRoutingConfig(config) ==
  [ source        |-> [i \in OutChannels |->
                         IF config.source[i] >= AUDIO_SOURCE_MAX THEN AUDIO_SOURCE_NONE
                         ELSE config.source[i]],
    mixLevel      |-> [i \in OutChannels |-> CLAMP(config.mixLevel[i], 0, ONE)],
    outputMute    |-> [i \in OutChannels |-> IF config.outputMute[i] # 0 THEN 1 ELSE 0],
    inputGain     |-> [i \in InChannels |-> CLAMP(config.inputGain[i], 0, 4 * ONE)],
    stereoLink    |-> [i \in 0 .. (AUDIO_OUTPUT_CHANNELS \div 2 - 1) |->
                         IF config.stereoLink[i] # 0 THEN 1 ELSE 0],
    monoSumInputs |-> IF config.monoSumInputs # 0 THEN 1 ELSE 0 ]

\* void AudioRouting_SetConfig(config)
AudioRouting_SetConfig(config) ==
  /\ call' = [op |-> "AudioRouting_SetConfig", index |-> 0, value |-> config]
  /\ ret' = VOID
  /\ IF config.null
     THEN UNCHANGED audioRoutingConfig
     ELSE audioRoutingConfig' = ValidateRoutingConfig(config.v)
  /\ UNCHANGED <<audioStatus, outputDmaBuffer, rmsValues, procBuffer>>
  /\ UNCHANGED notAudio

\* The audio path is modelled one sample period at a time: the frame loops of
\* the code visit the samples of a frame in order, and every per-sample step
\* below is one iteration of those loops for all channels.

\* static void ApplyInputGain(buffer): every input sample times its gain
ApplyInputGain(inBuf) ==
  [ch \in InChannels |-> FMul(inBuf[ch], audioRoutingConfig.inputGain[ch])]

\* The mono-sum step of AudioRouting_Process.
MonoSum(inBuf) ==
  IF audioRoutingConfig.monoSumInputs = 1
  THEN [ch \in InChannels |-> RoundDiv(inBuf[0] + inBuf[1], AUDIO_INPUT_CHANNELS)]
  ELSE inBuf

\* static void ProcessChannelRouting(outputChannel, inputBuffer, outputBuffer):
\* the sample written to the output channel
ProcessChannelRouting(outputChannel, inBuf) ==
  IF audioRoutingConfig.outputMute[outputChannel] # 0
  THEN 0
  ELSE LET source == audioRoutingConfig.source[outputChannel]
           mixLevel == audioRoutingConfig.mixLevel[outputChannel]
       IN CASE source = AUDIO_SOURCE_NONE -> 0
            [] source = AUDIO_SOURCE_IN1 -> inBuf[0]
            [] source = AUDIO_SOURCE_IN2 -> inBuf[1]
            [] source = AUDIO_SOURCE_IN1_IN2_MIX ->
                 FMul(inBuf[0], mixLevel) + FMul(inBuf[1], ONE - mixLevel)
            [] source = AUDIO_SOURCE_IN1_ONLY_LEFT -> inBuf[0]
            [] source = AUDIO_SOURCE_IN1_ONLY_RIGHT -> inBuf[0]
            [] source = AUDIO_SOURCE_IN2_ONLY_LEFT -> inBuf[1]
            [] source = AUDIO_SOURCE_IN2_ONLY_RIGHT -> inBuf[1]
            [] OTHER -> 0

\* void AudioRouting_Process(inputBuffer, outputBuffer)
AudioRouting_Process(inBuf) ==
  LET gained == MonoSum(ApplyInputGain(inBuf))
  IN [ch \in OutChannels |-> ProcessChannelRouting(ch, gained)]

\* ---------------------------------------------------------------------
\* Delay line (delay_init.c, delay_proc.c)
\* ---------------------------------------------------------------------

DELAY_INTERPOLATION_LINEAR == "DELAY_INTERPOLATION_LINEAR"
DELAY_INTERPOLATION_CUBIC == "DELAY_INTERPOLATION_CUBIC"

\* Samples of safety padding added to every delay buffer.
BufferPadding == 1

\* The smoothing coefficient of the delay output, in tenths (0.7f).
LOW_PASS_COEFF_TENTHS == 7

\* static uint32_t CalculateBufferSizeBytes(maxDelayMs, sampleRate); the model's
\* sample period is one time unit, so maxDelayMs * sampleRate / 1000 is
\* MaxDelaySamples.
CalculateBufferSizeBytes == MaxDelaySamples + BufferPadding

\* One instance as Delay_Init leaves it.  buffer is the memory the pointer of
\* the instance names, bufferIsNull is 1 when that pointer is NULL.
Delay_InitInstance ==
  [ isActive       |-> 0,
    bufferIsNull   |-> 0,
    bufferSize     |-> CalculateBufferSizeBytes,
    writeIndex     |-> 0,
    maxDelayMs     |-> MaxDelaySamples,
    currentDelayMs |-> 0,
    delaySamples   |-> 0,
    phaseInvert    |-> 0,
    enabled        |-> 0,
    filterCoeff    |-> LOW_PASS_COEFF_TENTHS,
    prevSample     |-> 0,
    buffer         |-> [i \in 0 .. (CalculateBufferSizeBytes - 1) |-> 0] ]

\* ApplyDelaySettings flushing the delay line as well
ApplyDelaySettings_Flush(inst) ==
  IF isDelaySystemInitialized = 0 THEN inst
  ELSE [inst EXCEPT !.delaySamples = inst.currentDelayMs,
                    !.buffer = [i \in DOMAIN @ |-> 0],
                    !.writeIndex = 0]

\* static void ApplyDelaySettings(channel): delaySamples from currentDelayMs
ApplyDelaySettings(inst) ==
  IF isDelaySystemInitialized = 0 THEN inst
  ELSE [inst EXCEPT !.delaySamples = inst.currentDelayMs]

\* The loop of Delay_DeInit: every buffer is freed and its pointer set to
\* NULL; no other field of an instance is written.
Delay_FreeBuffers(instances) ==
  [ch \in OutChannels |-> [instances[ch] EXCEPT !.bufferIsNull = 1]]

\* HAL_StatusTypeDef Delay_DeInit(void)
Delay_DeInit ==
  /\ call' = [op |-> "Delay_DeInit", index |-> 0, value |-> 0]
  /\ ret' = HAL_OK
  /\ IF isDelaySystemInitialized = 0
     THEN UNCHANGED <<delayInstances, isDelaySystemInitialized>>
     ELSE /\ delayInstances' = Delay_FreeBuffers(delayInstances)
          /\ isDelaySystemInitialized' = 0
  /\ UNCHANGED <<interpolationMode, procBuffer>>
  /\ UNCHANGED notDelay

\* HAL_StatusTypeDef Delay_Init(config); failAt is the channel whose
\* allocation fails, AUDIO_OUTPUT_CHANNELS when none does.  The instances the
\* loop has reached are reset; on a failure Delay_DeInit is called, which
\* frees the buffers only if the system was initialised before the call, and
\* the instances after failAt are left as they were.
Delay_Init(config, failAt) ==
  /\ call' = [op |-> "Delay_Init", index |-> 0, value |-> config]
  /\ IF config.null
     THEN ret' = HAL_ERROR /\ UNCHANGED <<delayInstances, isDelaySystemInitialized>>
     ELSE IF failAt >= AUDIO_OUTPUT_CHANNELS
     THEN /\ ret' = HAL_OK
          /\ delayInstances' = [ch \in OutChannels |-> Delay_InitInstance]
          /\ isDelaySystemInitialized' = 1
     ELSE LET reached ==
                [ch \in OutChannels |->
                   IF ch < failAt THEN Delay_InitInstance
                   ELSE IF ch = failAt
                   THEN [Delay_InitInstance EXCEPT !.bufferSize = 0, !.bufferIsNull = 1]
                   ELSE delayInstances[ch]]
          IN /\ ret' = HAL_ERROR
             /\ delayInstances' = IF isDelaySystemInitialized # 0
                                  THEN Delay_FreeBuffers(reached) ELSE reached
             /\ isDelaySystemInitialized' = 0
  /\ UNCHANGED <<interpolationMode, procBuffer>>
  /\ UNCHANGED notDelay

\* The instance of a valid channel is marked active while its buffer
\* pointer is NULL: the functions that test isActive go on to the buffer.
Delay_ActiveWithoutBuffer(channel) ==
  /\ channel < AUDIO_OUTPUT_CHANNELS
  /\ delayInstances[channel].isActive # 0
  /\ delayInstances[channel].bufferIsNull # 0

\* What a read through the NULL pointer returns: any value; two of them.
NullReads == {0, ONE}

\* HAL_StatusTypeDef Delay_ConfigChannel(channel, config)
Delay_ConfigChannel(channel, config) ==
  /\ call' = [op |-> "Delay_ConfigChannel", index |-> channel, value |-> config]
  /\ IF channel >= AUDIO_OUTPUT_CHANNELS \/ isDelaySystemInitialized = 0 \/ config.null
     THEN /\ ret' = HAL_ERROR
          /\ UNCHANGED delayInstances
     ELSE /\ ret' = HAL_OK
          /\ delayInstances' =
               [delayInstances EXCEPT ![channel] =
                  [ApplyDelaySettings(
                     [@ EXCEPT !.currentDelayMs = config.v.delayValue,
                               !.phaseInvert = config.v.phaseInvert,
                               !.enabled = config.v.enabled])
                   EXCEPT !.isActive = 1]]
  /\ UNCHANGED <<isDelaySystemInitialized, interpolationMode, procBuffer>>
  /\ UNCHANGED notDelay

\* HAL_StatusTypeDef Delay_SetTime(channel, delayMs)
Delay_SetTime(channel, delayMs) ==
  /\ call' = [op |-> "Delay_SetTime", index |-> channel, value |-> delayMs]
  /\ IF channel >= AUDIO_OUTPUT_CHANNELS
     THEN ret' = HAL_ERROR /\ UNCHANGED delayInstances
     ELSE IF delayInstances[channel].isActive = 0
     THEN ret' = HAL_ERROR /\ UNCHANGED delayInstances
     ELSE IF delayMs < 0 \/ delayMs > delayInstances[channel].maxDelayMs
     THEN ret' = HAL_ERROR /\ UNCHANGED delayInstances
     ELSE /\ ret' = HAL_OK
          /\ delayInstances' =
               [delayInstances EXCEPT ![channel] =
                  ApplyDelaySettings([@ EXCEPT !.currentDelayMs = delayMs])]
  /\ UNCHANGED <<isDelaySystemInitialized, interpolationMode, procBuffer>>
  /\ UNCHANGED notDelay

\* HAL_StatusTypeDef Delay_SetEnable(channel, enable)
Delay_SetEnable(channel, enable) ==
  /\ call' = [op |-> "Delay_SetEnable", index |-> channel, value |-> enable]
  /\ IF channel >= AUDIO_OUTPUT_CHANNELS
     THEN ret' = HAL_ERROR /\ UNCHANGED delayInstances
     ELSE IF delayInstances[channel].isActive = 0
     THEN ret' = HAL_ERROR /\ UNCHANGED delayInstances
     ELSE /\ ret' = HAL_OK
          /\ delayInstances' =
               [delayInstances EXCEPT ![channel].enabled = IF enable # 0 THEN 1 ELSE 0]
  /\ UNCHANGED <<isDelaySystemInitialized, interpolationMode, procBuffer>>
  /\ UNCHANGED notDelay

\* HAL_StatusTypeDef Delay_FlushBuffer(channel)
Delay_FlushBuffer(channel) ==
  /\ call' = [op |-> "Delay_FlushBuffer", index |-> channel, value |-> 0]
  /\ IF channel >= AUDIO_OUTPUT_CHANNELS
     THEN ret' = HAL_ERROR /\ UNCHANGED delayInstances
     ELSE IF delayInstances[channel].isActive = 0
     THEN ret' = HAL_ERROR /\ UNCHANGED delayInstances
     ELSE IF Delay_ActiveWithoutBuffer(channel)
     THEN \* memset through the NULL pointer is undefined: a fault, or the
          \* write has no effect and the function goes on
          \E fault \in BOOLEAN :
             IF fault THEN ret' = "HardFault" /\ UNCHANGED delayInstances
             ELSE /\ ret' = HAL_OK
                  /\ delayInstances' =
                       [delayInstances EXCEPT ![channel] =
                          [@ EXCEPT !.writeIndex = 0, !.prevSample = 0]]
     ELSE /\ ret' = HAL_OK
          /\ delayInstances' =
               [delayInstances EXCEPT ![channel] =
                  [@ EXCEPT !.buffer = [i \in DOMAIN @ |-> 0],
                            !.writeIndex = 0,
                            !.prevSample = 0]]
  /\ UNCHANGED <<isDelaySystemInitialized, interpolationMode, procBuffer>>
  /\ UNCHANGED notDelay

\* HAL_StatusTypeDef Delay_SetInterpolationMode(mode): one mode for the delay
\* lines of all channels
Delay_SetInterpolationMode(mode) ==
  /\ call' = [op |-> "Delay_SetInterpolationMode", index |-> 0, value |-> mode]
  /\ IF mode # DELAY_INTERPOLATION_LINEAR /\ mode # DELAY_INTERPOLATION_CUBIC
     THEN ret' = HAL_ERROR /\ UNCHANGED interpolationMode
     ELSE ret' = HAL_OK /\ interpolationMode' = mode
  /\ UNCHANGED <<delayInstances, isDelaySystemInitialized, procBuffer>>
  /\ UNCHANGED notDelay

\* A negative int32_t converted to uint32_t, modulo b: (2^32 + i) % b, computed
\* from 2^32 = 65536 * 65536 without leaving 32 bits.
Uint32Mod(i, b) ==
  IF i >= 0 THEN i % b
  ELSE ((((65536 % b) * (65536 % b)) % b) + (i % b)) % b

\* static inline uint32_t ModuloBufferSize(int32_t index, uint32_t bufferSize):
\* bufferSize is added once to a negative index; the remainder is taken on
\* unsigned operands.
ModuloBufferSize(index, bufferSize) ==
  Uint32Mod(IF index < 0 THEN index + bufferSize ELSE index, bufferSize)

\* The positions InterpolateLinear and InterpolateCubic read.
InterpolateLinearPositions(bufferSize, readIndex) ==
  {readIndex, ModuloBufferSize(readIndex + 1, bufferSize)}
InterpolateCubicPositions(bufferSize, readIndex) ==
  {ModuloBufferSize(readIndex - 1, bufferSize), readIndex,
   ModuloBufferSize(readIndex + 1, bufferSize),
   ModuloBufferSize(readIndex + 2, bufferSize)}

\* static float InterpolateLinear(buffer, bufferSize, readIndex, fraction)
InterpolateLinear(buffer, bufferSize, readIndex, fraction) ==
  LET sample1 == buffer[readIndex]
      sample2 == buffer[ModuloBufferSize(readIndex + 1, bufferSize)]
  IN sample1 + FMul(fraction, sample2 - sample1)

\* static float InterpolateCubic(buffer, bufferSize, readIndex, fraction)
InterpolateCubic(buffer, bufferSize, readIndex, fraction) ==
  LET y0 == buffer[ModuloBufferSize(readIndex - 1, bufferSize)]
      y1 == buffer[readIndex]
      y2 == buffer[ModuloBufferSize(readIndex + 1, bufferSize)]
      y3 == buffer[ModuloBufferSize(readIndex + 2, bufferSize)]
      a0 == y3 - y2 - y0 + y1
      a1 == y0 - y1 - a0
      a2 == y2 - y0
      frac2 == FMul(fraction, fraction)
  IN FMul(FMul(a0, fraction), frac2) + FMul(a1, frac2) + FMul(a2, fraction) + y1

\* The loop of ProcessSampleWithDelay that adds bufferSize to a negative read
\* position until it is not negative.
Delay_WrapReadPos(readPos, bufferSize) ==
  IF readPos < 0 THEN readPos % bufferSize ELSE readPos

\* The integer read index of ProcessSampleWithDelay.
Delay_ReadIndex(inst) ==
  ModuloBufferSize(Delay_WrapReadPos(inst.writeIndex - inst.delaySamples, inst.bufferSize),
                   inst.bufferSize)

\* The write index after a sample, with and without the wrap at the end of
\* the buffer.
Delay_AdvanceWriteIndex_NoWrap(inst) == inst.writeIndex + 1
Delay_AdvanceWriteIndex(inst) == ModuloBufferSize(inst.writeIndex + 1, inst.bufferSize)

\* static float ProcessSampleWithDelay(channel, input): the instance after the
\* sample and the sample returned.  Delays are whole samples in the model, so
\* the fractional part of the read position is 0.
ProcessSampleWithDelay(inst, input) ==
  LET buf == [inst.buffer EXCEPT ![inst.writeIndex] = input]
      readIndex == Delay_ReadIndex(inst)
      interp == IF interpolationMode = DELAY_INTERPOLATION_LINEAR
                THEN InterpolateLinear(buf, inst.bufferSize, readIndex, 0)
                ELSE InterpolateCubic(buf, inst.bufferSize, readIndex, 0)
      phased == IF inst.phaseInvert # 0 THEN -interp ELSE interp
      output == RoundDiv(phased * (10 - inst.filterCoeff) + inst.prevSample * inst.filterCoeff, 10)
  IN [ inst |-> [inst EXCEPT !.buffer = buf,
                             !.prevSample = output,
                             !.writeIndex = Delay_AdvanceWriteIndex(inst)],
       out  |-> output ]

\* The sample loop of Delay_Process from sample i on.
RECURSIVE Delay_ProcessLoop(_, _, _, _)
Delay_ProcessLoop(inst, pData, i, size) ==
  IF i > size THEN [inst |-> inst, data |-> pData]
  ELSE LET r == ProcessSampleWithDelay(inst, pData[i])
       IN Delay_ProcessLoop(r.inst, [pData EXCEPT ![i] = r.out], i + 1, size)

\* HAL_StatusTypeDef Delay_Process(channel, pData, size): status, the instance
\* and the buffer after the call.
Delay_Process(instances, channel, pData, size) ==
  IF channel >= AUDIO_OUTPUT_CHANNELS \/ pData.null \/ size = 0
  THEN [status |-> HAL_ERROR, instances |-> instances, data |-> pData]
  ELSE IF instances[channel].isActive = 0 \/ instances[channel].enabled = 0
  THEN [status |-> HAL_OK, instances |-> instances, data |-> pData]
  ELSE LET r == Delay_ProcessLoop(instances[channel], pData.v, 1, size)
       IN [status |-> HAL_OK,
           instances |-> [instances EXCEPT ![channel] = r.inst],
           data |-> Ptr(r.data)]

\* A call of Delay_Process on the caller's buffer pData of size samples
Delay_ProcessCall(channel, pData, size) ==
  LET r == Delay_Process(delayInstances, channel, pData, size)
  IN /\ call' = [op |-> "Delay_Process", index |-> channel,
                 value |-> [buf |-> pData, size |-> size]]
     /\ IF /\ Delay_ActiveWithoutBuffer(channel)
           /\ delayInstances[channel].enabled # 0 /\ ~pData.null /\ size # 0
        THEN \* ProcessSampleWithDelay writes and reads through the NULL
             \* pointer, which is undefined: a fault, or the writes have no
             \* effect and the reads return any value
             \E fault \in BOOLEAN, x \in NullReads :
                IF fault
                THEN ret' = "HardFault" /\ procBuffer' = pData /\ UNCHANGED delayInstances
                ELSE /\ ret' = HAL_OK
                     /\ procBuffer' = Ptr([i \in 1 .. size |-> x])
                     /\ delayInstances' =
                          [delayInstances EXCEPT ![channel] =
                             [@ EXCEPT !.prevSample = x,
                                       !.writeIndex =
                                          ModuloBufferSize(@ + size, delayInstances[channel].bufferSize)]]
        ELSE /\ ret' = r.status
             /\ procBuffer' = r.data
             /\ delayInstances' = r.instances
     /\ UNCHANGED <<isDelaySystemInitialized, interpolationMode>>
     /\ UNCHANGED notDelay

\* ---------------------------------------------------------------------
\* IEEE-754 single precision: the values that are not finite
\* ---------------------------------------------------------------------

\* x / 0 and what follows from it.  The three values stand for +Inf, -Inf
\* and NaN; every finite value of the model is far smaller in magnitude.
F_INF == 1000000000
F_NINF == -F_INF
F_NAN == 2000000000

IsInf(x) == x = F_INF \/ x = F_NINF
IsFinite(x) == ~IsInf(x) /\ x # F_NAN
Sign(x) == IF x > 0 /\ x # F_NAN THEN 1 ELSE IF x < 0 THEN -1 ELSE 0

XNeg(a) ==
  CASE a = F_NAN -> F_NAN
    [] a = F_INF -> F_NINF
    [] a = F_NINF -> F_INF
    [] OTHER -> -a

XAdd(a, b) ==
  CASE a = F_NAN \/ b = F_NAN -> F_NAN
    [] IsInf(a) /\ IsInf(b) -> IF a = b THEN a ELSE F_NAN
    [] IsInf(a) -> a
    [] IsInf(b) -> b
    [] OTHER -> a + b

XSub(a, b) == XAdd(a, XNeg(b))

\* the product of two values on the integer grid
XMul(a, b) ==
  CASE a = F_NAN \/ b = F_NAN -> F_NAN
    [] IsInf(a) \/ IsInf(b) ->
         IF a = 0 \/ b = 0 THEN F_NAN
         ELSE IF Sign(a) * Sign(b) > 0 THEN F_INF ELSE F_NINF
    [] OTHER -> a * b

\* the quotient, rounded to the grid; division by zero as IEEE-754 defines it
\* (a zero divisor is +0 wherever the program reaches one)
XDiv(a, b) ==
  CASE a = F_NAN \/ b = F_NAN -> F_NAN
    [] IsInf(a) /\ IsInf(b) -> F_NAN
    [] IsInf(a) -> IF Sign(a) * (IF b < 0 THEN -1 ELSE 1) > 0 THEN F_INF ELSE F_NINF
    [] IsInf(b) -> 0
    [] b = 0 -> IF a = 0 THEN F_NAN ELSE IF a > 0 THEN F_INF ELSE F_NINF
    [] OTHER -> RoundDiv(a, b)

\* products and quotients of two fixed-point values
FMulF(a, b) == XDiv(XMul(a, b), ONE)
FDivF(a, b) == XDiv(XMul(a, ONE), b)

\* 2^(n/d) in fixed point: exact at whole octaves, linear in between.
\* powf(10, x/20) is Exp2(x, 6) and powf(10, x/40) is Exp2(x, 12).
Exp2(n, d) ==
  LET k == n \div d
      base == ONE + RoundDiv(ONE * (n - k * d), d)
  IN IF k >= 0 THEN base * 2^k ELSE RoundDiv(base, 2^(-k))

\* sqrtf on the fixed-point grid (NaN for a negative argument)
FSqrt(a) ==
  IF ~IsFinite(a) THEN (IF a = F_INF THEN F_INF ELSE F_NAN)
  ELSE IF a < 0 THEN F_NAN
  ELSE CHOOSE r \in 0 .. (a * ONE) : r * r <= a * ONE /\ (r + 1) * (r + 1) > a * ONE

\* sinf and cosf of omega = 2 pi f / fs on the fixed-point grid: exact at
\* f = 0, fs/4, fs/2, ..., a parabola (sin) and a line (cos) in between.
HalfTurn(f, fs) ==
  LET g == Abs(f) % fs IN IF 2 * g > fs THEN fs - g ELSE g

CosOmega(f, fs) == ONE - RoundDiv(4 * ONE * HalfTurn(f, fs), fs)

SinOmega(f, fs) ==
  LET hk == RoundDiv(64 * HalfTurn(f, fs), fs)
      mag == RoundDiv(ONE * hk * (32 - hk), 256)
      neg == (f < 0) # (2 * (Abs(f) % fs) > fs)
  IN IF neg THEN -mag ELSE mag

\* ---------------------------------------------------------------------
\* Audio driver (audio_driver.c)
\* ---------------------------------------------------------------------

\* The driver status as Audio_Init leaves it: unity gains, nothing muted.
Audio_Init ==
  [ inputGain  |-> [i \in InChannels |-> ONE],
    outputGain |-> [i \in OutChannels |-> ONE],
    inputMute  |-> [i \in InChannels |-> 0],
    outputMute |-> [i \in OutChannels |-> 0] ]

\* #define INT24_TO_FLOAT(x) ((float)(x) / AUDIO_MAX_VALUE)
INT24_TO_FLOAT(x) == RoundDiv(x * ONE, AUDIO_MAX_VALUE)

\* #define FLOAT_TO_INT24(x) ((int32_t)((x) * AUDIO_MAX_VALUE))
FLOAT_TO_INT24(x) == TruncDiv(x * AUDIO_MAX_VALUE, ONE)

\* HAL_StatusTypeDef Audio_SetOutputGain(channel, gain)
Audio_SetOutputGain(channel, gain) ==
  /\ call' = [op |-> "Audio_SetOutputGain", index |-> channel, value |-> gain]
  /\ IF channel >= AUDIO_OUTPUT_CHANNELS
     THEN ret' = HAL_ERROR /\ UNCHANGED audioStatus
     ELSE /\ ret' = HAL_OK
          /\ audioStatus' = [audioStatus EXCEPT !.outputGain[channel] = gain]
  /\ UNCHANGED <<audioRoutingConfig, outputDmaBuffer, rmsValues, procBuffer>>
  /\ UNCHANGED notAudio

\* HAL_StatusTypeDef Audio_MuteOutput(channel, state)
Audio_MuteOutput(channel, state) ==
  /\ call' = [op |-> "Audio_MuteOutput", index |-> channel, value |-> state]
  /\ IF channel >= AUDIO_OUTPUT_CHANNELS
     THEN ret' = HAL_ERROR /\ UNCHANGED audioStatus
     ELSE /\ ret' = HAL_OK
          /\ audioStatus' = [audioStatus EXCEPT !.outputMute[channel] =
                                                   IF state # 0 THEN 1 ELSE 0]
  /\ UNCHANGED <<audioRoutingConfig, outputDmaBuffer, rmsValues, procBuffer>>
  /\ UNCHANGED notAudio

\* static void Audio_ProcessInputSamples(offset, buffer): the float sample of
\* every input channel, from the 24-bit codes of the input half-buffer
Audio_ProcessInputSamples(dmaIn) ==
  [ch \in InChannels |->
     IF audioStatus.inputMute[ch] # 0 THEN 0
     ELSE FMul(INT24_TO_FLOAT(dmaIn[ch]), audioStatus.inputGain[ch])]

\* The hard limit of the output stage: CLAMP(sample_float, -1.0f, 1.0f)
HardLimit_Off(sample) == sample
HardLimit(sample) == CLAMP(sample, -ONE, ONE)

\* The mute-or-gain step of the output stage for one sample of channel ch.
OutputGainMute_Off(ch, sample) == FMul(sample, audioStatus.outputGain[ch])
OutputGainMute(ch, sample) ==
  IF audioStatus.outputMute[ch] # 0 THEN 0
  ELSE FMul(sample, audioStatus.outputGain[ch])

\* static void Audio_PrepareOutputSamples(offset, buffer): the 24-bit codes
\* written to the output half-buffer
Audio_PrepareOutputSamples(buffer) ==
  [ch \in OutChannels |-> FLOAT_TO_INT24(HardLimit(OutputGainMute(ch, buffer[ch])))]

\* rmsValues[channel] * AUDIO_RMS_DECAY + newRMS * (1 - AUDIO_RMS_DECAY), with
\* AUDIO_RMS_DECAY = 0.9; rounded down to the grid, as the limiter's peak is.
Audio_SmoothRMS(old, newRMS) == (9 * old + newRMS) \div 10

\* float Audio_CalculateRMS(channel, buffer) on the samples of the channel:
\* the new rmsValues[channel], which is also the value returned.  The window
\* is the whole buffer of the model.
Audio_CalculateRMS(old, samples) ==
  LET RECURSIVE Sum(_)
      Sum(i) == IF i > Len(samples) THEN 0 ELSE FMul(samples[i], samples[i]) + Sum(i + 1)
  IN Audio_SmoothRMS(old, FSqrt(RoundDiv(Sum(1), Len(samples))))

\* A call of Audio_CalculateRMS(channel, buffer); the value returned is left
\* in procBuffer
Audio_CalculateRMSCall(channel, samples) ==
  /\ call' = [op |-> "Audio_CalculateRMS", index |-> channel,
              value |-> [buf |-> Ptr(samples), size |-> Len(samples)]]
  /\ ret' = VOID
  /\ IF channel >= AUDIO_OUTPUT_CHANNELS
     THEN procBuffer' = Ptr(<<0>>) /\ UNCHANGED rmsValues
     ELSE /\ rmsValues' = [rmsValues EXCEPT ![channel] = Audio_CalculateRMS(@, samples)]
          /\ procBuffer' = Ptr(<<Audio_CalculateRMS(rmsValues[channel], samples)>>)
  /\ UNCHANGED <<audioRoutingConfig, audioStatus, outputDmaBuffer>>
  /\ UNCHANGED notAudio

\* ---------------------------------------------------------------------
\* Processing pipeline (main.c)
\* ---------------------------------------------------------------------

\* static void Audio_Pipeline_Process(void): input conversion, routing, the
\* per-channel chain and the output stage.  Of the per-channel chain the
\* delay line is on this path; the other modules are exercised on their own.
Audio_Pipeline_Process(dmaIn) ==
  LET inBuf == Audio_ProcessInputSamples(dmaIn)
      routed == AudioRouting_Process(inBuf)
      delayed == [ch \in OutChannels |->
                    Delay_Process(delayInstances, ch, Ptr(<<routed[ch]>>), 1)]
      outBuf == [ch \in OutChannels |-> delayed[ch].data.v[1]]
  IN /\ call' = [op |-> "Audio_Pipeline_Process", index |-> 0, value |-> 0]
     /\ ret' = VOID
     /\ delayInstances' = [ch \in OutChannels |-> delayed[ch].instances[ch]]
     /\ outputDmaBuffer' = Audio_PrepareOutputSamples(outBuf)
     /\ rmsValues' = [ch \in OutChannels |->
                        Audio_CalculateRMS(rmsValues[ch], <<outBuf[ch]>>)]
     /\ UNCHANGED <<audioRoutingConfig, audioStatus, isDelaySystemInitialized,
                    interpolationMode, procBuffer>>
     /\ UNCHANGED <<limiterVars, dspVars, controlVars, mainVars>>

\* ---------------------------------------------------------------------
\* Initial state: after main() has initialised every module
\* ---------------------------------------------------------------------

InitAudio ==
  /\ audioRoutingConfig = AudioRouting_Init
  /\ audioStatus = Audio_Init
  /\ outputDmaBuffer = [ch \in OutChannels |-> 0]
  /\ rmsValues = [ch \in OutChannels |-> 0]

InitDelay ==
  /\ delayInstances = [ch \in OutChannels |-> Delay_InitInstance]
  /\ isDelaySystemInitialized = 1
  /\ interpolationMode = DELAY_INTERPOLATION_LINEAR

\* ---------------------------------------------------------------------
\* Limiter (limiter_proc.c, limiter_init.c)
\* ---------------------------------------------------------------------

LIMITER_OK == "LIMITER_OK"
LIMITER_ERROR == "LIMITER_ERROR"

\* Length of the lookahead ring buffer in the model.
MaxLookahead == 2

\* Samples the limiter holds its gain after the last overshoot in the model.
HoldSamples == 2

\* The floor of the gain reduction, 10^(MIN_GAIN_DB / 20) = 0.0631.
MinGainLinear == RoundDiv(631 * ONE, 10000)

\* Limiter times are in hundredths of a millisecond; one sample period is one
\* millisecond in the model.
Limiter_TimeToSamples(t) == MAX(1, RoundDiv(t, 100))

\* static void Limiter_CalculateTimingParameters(channel)
Limiter_CalculateTimingParameters(st, config) ==
  [st EXCEPT !.attackTime = Limiter_TimeToSamples(config.attackTime),
             !.releaseTime = Limiter_TimeToSamples(config.releaseTime)]

\* The configuration of a channel before any update: threshold 1.0, no knee,
\* minimum attack and release, no lookahead, no inter-sample protection.
Limiter_DefaultConfig ==
  [ threshold |-> ONE, knee |-> 0, attackTime |-> 1, releaseTime |-> 100,
    lookaheadTime |-> 0, enableLookahead |-> 0, enableISP |-> 0,
    adaptiveRelease |-> 0 ]

\* The state Limiter_Init and Limiter_Reset write.
Limiter_ResetState(st) ==
  [st EXCEPT !.currentGain = ONE, !.peakLevel = 0, !.targetGain = ONE,
             !.envelope = 0, !.holdCounter = 0, !.prevSample = 0,
             !.lookaheadIndex = 0,
             !.lookaheadBuffer = [i \in 0 .. (MaxLookahead - 1) |-> 0]]

\* limiterState[channel] in zero-initialised static memory, before the first
\* Limiter_Init of the channel.
Limiter_ZeroState ==
  [ currentGain |-> 0, peakLevel |-> 0, targetGain |-> 0, envelope |-> 0,
    holdCounter |-> 0, prevSample |-> 0, lookaheadIndex |-> 0,
    lookaheadBuffer |-> [i \in 0 .. (MaxLookahead - 1) |-> 0],
    attackTime |-> 0, releaseTime |-> 0 ]

Limiter_InitState ==
  Limiter_CalculateTimingParameters(
    [ currentGain |-> ONE, peakLevel |-> 0, targetGain |-> ONE, envelope |-> 0,
      holdCounter |-> 0, prevSample |-> 0, lookaheadIndex |-> 0,
      lookaheadBuffer |-> [i \in 0 .. (MaxLookahead - 1) |-> 0],
      attackTime |-> 1, releaseTime |-> 1 ],
    Limiter_DefaultConfig)

\* static float Limiter_ApplyInterSampleProtection(channel, inputSample).  With
\* both samples 0 the code divides 0 by 0; every comparison with the resulting
\* NaN is false and the input is returned.
Limiter_ApplyInterSampleProtection(st, config, inputSample) ==
  IF config.enableISP = 0 THEN inputSample
  ELSE LET prevSample == st.prevSample
           sameSign == \/ (inputSample > 0 /\ prevSample > 0)
                       \/ (inputSample < 0 /\ prevSample < 0)
           sum == Abs(prevSample) + Abs(inputSample)
           predictedPeak ==
             IF sameSign
             THEN IF Abs(inputSample) > Abs(prevSample)
                  THEN RoundDiv(inputSample * 105, 100)
                  ELSE RoundDiv(prevSample * 105, 100)
             ELSE IF sum = 0 THEN 0
             ELSE RoundDiv(2 * Abs(prevSample) * Abs(inputSample) * 115, sum * 100)
       IN IF (sameSign \/ sum # 0) /\ Abs(predictedPeak) > Abs(inputSample)
          THEN IF inputSample >= 0 THEN predictedPeak ELSE -predictedPeak
          ELSE inputSample

\* static float Limiter_ProcessLookahead(channel, inputSample): the state
\* after the call and the sample returned
Limiter_ProcessLookahead(st, config, inputSample) ==
  IF config.enableLookahead = 0 \/ config.lookaheadTime <= 0
  THEN [st |-> st, out |-> inputSample]
  ELSE LET buf == [st.lookaheadBuffer EXCEPT ![st.lookaheadIndex] = inputSample]
           outputIndex == (st.lookaheadIndex + MaxLookahead - config.lookaheadTime)
                            % MaxLookahead
       IN [st |-> [st EXCEPT !.lookaheadBuffer = buf,
                             !.lookaheadIndex = (st.lookaheadIndex + 1) % MaxLookahead],
           out |-> buf[outputIndex]]

\* static float Limiter_CalculateGainReduction(channel, inputLevel)
Limiter_CalculateGainReduction(st, config, inputLevel) ==
  IF inputLevel > config.threshold
  THEN LET gr0 == RoundDiv(config.threshold * ONE, inputLevel)
           kneeStart == 2 * config.threshold - config.knee   \* twice the value
           kneeEnd == 2 * config.threshold + config.knee     \* twice the value
           gr1 == IF config.knee > 0 /\ 2 * inputLevel < kneeEnd
                  THEN ONE - RoundDiv((2 * inputLevel - kneeStart) * (ONE - gr0),
                                      2 * config.knee)
                  ELSE gr0
           gr2 == IF gr1 < MinGainLinear THEN MinGainLinear ELSE gr1
       IN [st |-> [st EXCEPT !.targetGain = gr2, !.holdCounter = HoldSamples],
           gainReduction |-> gr2]
  ELSE [st |-> [st EXCEPT !.targetGain = ONE,
                          !.holdCounter = IF @ > 0 THEN @ - 1 ELSE @],
        gainReduction |-> ONE]

\* static void Limiter_UpdateReleaseEnvelope(channel, gainReduction)
Limiter_UpdateReleaseEnvelope(st, config, gainReduction) ==
  IF st.holdCounter > 0
  THEN [st EXCEPT !.currentGain = st.targetGain]
  ELSE IF gainReduction < st.currentGain
  THEN [st EXCEPT !.currentGain =
          RoundDiv(st.currentGain * (st.attackTime - 1) + gainReduction, st.attackTime)]
  ELSE IF gainReduction > st.currentGain /\ st.releaseTime = 0
  THEN [st EXCEPT !.currentGain = F_NAN]   \* releaseCoeff is 1 / 0: Inf - Inf, or 0 * Inf
  ELSE IF gainReduction > st.currentGain
  THEN LET g1 == RoundDiv(st.currentGain * (st.releaseTime - 1) + gainReduction,
                          st.releaseTime)
           adaptiveScale == ONE + 5 * (ONE - g1)
           den == st.releaseTime * adaptiveScale
           g2 == RoundDiv(g1 * (den - ONE) + gainReduction * ONE, den)
       IN [st EXCEPT !.currentGain = IF config.adaptiveRelease # 0 THEN g2 ELSE g1]
  ELSE st

\* The hard clip at the end of Limiter_ProcessSample.
Limiter_HardClip_Off(outputSample) == outputSample
Limiter_HardClip(outputSample) ==
  IF outputSample > ONE THEN ONE
  ELSE IF outputSample < -ONE THEN -ONE
  ELSE outputSample

\* static float Limiter_ProcessSample(channel, inputSample): the state after
\* the sample and the sample returned.  The smoothed peak level is rounded
\* down: as in the program it falls whenever the sample is below it.
Limiter_ProcessSample(st, config, inputSample) ==
  LET isp == Limiter_ApplyInterSampleProtection(st, config, inputSample)
      la == Limiter_ProcessLookahead(st, config, isp)
      processedSample == la.out
      sampleAbs == Abs(processedSample)
      peak == MAX(sampleAbs, (9 * la.st.peakLevel + sampleAbs) \div 10)
      gr == Limiter_CalculateGainReduction([la.st EXCEPT !.peakLevel = peak], config, peak)
      outputSample == FMul(processedSample, gr.st.currentGain)
      st3 == Limiter_UpdateReleaseEnvelope(gr.st, config, gr.gainReduction)
  IN [st |-> [st3 EXCEPT !.prevSample = inputSample],
      out |-> Limiter_HardClip(outputSample)]

\* The sample loop of Limiter_ProcessBlock from sample i on; a sample is
\* written back to the buffer before the next one is read.
RECURSIVE Limiter_ProcessLoop(_, _, _, _, _)
Limiter_ProcessLoop(st, config, pData, i, blockSize) ==
  IF i > blockSize THEN [st |-> st, data |-> pData]
  ELSE LET r == Limiter_ProcessSample(st, config, pData[i])
       IN CASE r.out \in Int ->
            Limiter_ProcessLoop(r.st, config, [pData EXCEPT ![i] = r.out], i + 1, blockSize)

\* LimiterStatus_TypeDef Limiter_ProcessBlock(channel, pData, blockSize)
Limiter_ProcessBlock(channel, pData, blockSize) ==
  /\ call' = [op |-> "Limiter_ProcessBlock", index |-> channel,
              value |-> [buf |-> pData, size |-> blockSize]]
  /\ IF limiterInitialized = 0 \/ channel >= AUDIO_OUTPUT_CHANNELS \/ pData.null
     THEN /\ ret' = LIMITER_ERROR
          /\ procBuffer' = pData
          /\ UNCHANGED limiterState
     ELSE LET r == Limiter_ProcessLoop(limiterState[channel], limiterConfig[channel],
                                       pData.v, 1, blockSize)
          IN /\ ret' = LIMITER_OK
             /\ procBuffer' = Ptr(r.data)
             /\ limiterState' = [limiterState EXCEPT ![channel] = r.st]
  /\ UNCHANGED <<limiterConfig, limiterInitialized, limiterBypass>>
  /\ UNCHANGED notLimiter

\* LimiterStatus_TypeDef Limiter_Init(channel, config) of limiter_proc.c; the
\* configuration is not stored, the timing is that of Limiter_GetConfig.
Limiter_Init(channel, config) ==
  /\ call' = [op |-> "Limiter_Init", index |-> channel, value |-> config]
  /\ IF channel >= AUDIO_OUTPUT_CHANNELS
     THEN ret' = LIMITER_ERROR /\ UNCHANGED <<limiterState, limiterInitialized>>
     ELSE /\ ret' = LIMITER_OK
          /\ limiterState' = [limiterState EXCEPT ![channel] =
                                Limiter_CalculateTimingParameters(
                                  Limiter_ResetState(@), limiterConfig[channel])]
          /\ limiterInitialized' = 1
  /\ UNCHANGED <<limiterConfig, limiterBypass, procBuffer>>
  /\ UNCHANGED notLimiter

\* LimiterStatus_TypeDef Limiter_UpdateConfig(channel, config)
Limiter_UpdateConfig(channel, config) ==
  /\ call' = [op |-> "Limiter_UpdateConfig", index |-> channel, value |-> config]
  /\ IF channel >= AUDIO_OUTPUT_CHANNELS \/ config.null
     THEN ret' = LIMITER_ERROR /\ UNCHANGED <<limiterConfig, limiterState>>
     ELSE IF config.v.threshold <= 0 \/ config.v.threshold > ONE
     THEN ret' = LIMITER_ERROR /\ UNCHANGED <<limiterConfig, limiterState>>
     ELSE LET c1 == [config.v EXCEPT
                       !.attackTime = IF @ < 1 THEN 1 ELSE @,
                       !.releaseTime = IF @ < 100 THEN 100 ELSE @,
                       !.lookaheadTime = IF @ > MaxLookahead THEN MaxLookahead ELSE @]
          IN /\ ret' = LIMITER_OK
             /\ limiterConfig' = [limiterConfig EXCEPT ![channel] = c1]
             /\ limiterState' = [limiterState EXCEPT ![channel] =
                                   Limiter_CalculateTimingParameters(@, c1)]
  /\ UNCHANGED <<limiterInitialized, limiterBypass, procBuffer>>
  /\ UNCHANGED notLimiter

\* void Limiter_SetBypass(instance, bypass), for the instance of a channel
Limiter_SetBypass(channel, bypass) ==
  /\ call' = [op |-> "Limiter_SetBypass", index |-> channel, value |-> bypass]
  /\ ret' = VOID
  /\ IF channel >= AUDIO_OUTPUT_CHANNELS
     THEN UNCHANGED limiterBypass
     ELSE limiterBypass' = [limiterBypass EXCEPT ![channel] = bypass]
  /\ UNCHANGED <<limiterState, limiterConfig, limiterInitialized, procBuffer>>
  /\ UNCHANGED notLimiter

InitLimiter ==
  /\ limiterState = [ch \in OutChannels |-> Limiter_InitState]
  /\ limiterConfig = [ch \in OutChannels |-> Limiter_DefaultConfig]
  /\ limiterInitialized = 1
  /\ limiterBypass = [ch \in OutChannels |-> 0]

\* ---------------------------------------------------------------------
\* Biquad section (biquad.c)
\* ---------------------------------------------------------------------

AUDIO_SAMPLE_RATE == 48000

BIQUAD_TYPE_LPF == 0
BIQUAD_TYPE_HPF == 1
BIQUAD_TYPE_BPF == 2
BIQUAD_TYPE_NOTCH == 3
BIQUAD_TYPE_PEAK == 4
BIQUAD_TYPE_LOWSHELF == 5
BIQUAD_TYPE_HIGHSHELF == 6

\* Q is carried in tenths: Q = 0.1 is 1 and Q = 10 is 100.
Q_TENTHS == 10

\* A BiquadState_t in zero-initialised static memory.
Biquad_Zero ==
  [b0 |-> 0, b1 |-> 0, b2 |-> 0, a1 |-> 0, a2 |-> 0,
   x1 |-> 0, x2 |-> 0, y1 |-> 0, y2 |-> 0]

\* The five coefficients of a biquad section.
BiquadCoefficients(state) == <<state.b0, state.b1, state.b2, state.a1, state.a2>>

\* void Biquad_Reset(state)
Biquad_Reset(state) == [state EXCEPT !.x1 = 0, !.x2 = 0, !.y1 = 0, !.y2 = 0]

\* The switch of Biquad_CalculateCoefficients: the five coefficients before
\* normalisation, from the filter type, cos(omega), alpha, A and beta.
Biquad_RawCoefficients(type, cosOmega, alpha, A, beta) ==
  CASE type = BIQUAD_TYPE_LPF ->
         [b0 |-> RoundDiv(ONE - cosOmega, 2), b1 |-> ONE - cosOmega,
          b2 |-> RoundDiv(ONE - cosOmega, 2),
          a1 |-> -2 * cosOmega, a2 |-> XSub(ONE, alpha)]
    [] type = BIQUAD_TYPE_HPF ->
         [b0 |-> RoundDiv(ONE + cosOmega, 2), b1 |-> -(ONE + cosOmega),
          b2 |-> RoundDiv(ONE + cosOmega, 2),
          a1 |-> -2 * cosOmega, a2 |-> XSub(ONE, alpha)]
    [] type = BIQUAD_TYPE_BPF ->
         [b0 |-> alpha, b1 |-> 0, b2 |-> XNeg(alpha),
          a1 |-> -2 * cosOmega, a2 |-> XSub(ONE, alpha)]
    [] type = BIQUAD_TYPE_NOTCH ->
         [b0 |-> ONE, b1 |-> -2 * cosOmega, b2 |-> ONE,
          a1 |-> -2 * cosOmega, a2 |-> XSub(ONE, alpha)]
    [] type = BIQUAD_TYPE_PEAK ->
         [b0 |-> XAdd(ONE, FMulF(alpha, A)), b1 |-> -2 * cosOmega,
          b2 |-> XSub(ONE, FMulF(alpha, A)),
          a1 |-> -2 * cosOmega, a2 |-> XSub(ONE, FDivF(alpha, A))]
    [] type = BIQUAD_TYPE_LOWSHELF ->
         [b0 |-> FMulF(A, XAdd((A + ONE) - FMul(A - ONE, cosOmega), beta)),
          b1 |-> FMul(2 * A, (A - ONE) - FMul(A + ONE, cosOmega)),
          b2 |-> FMulF(A, XSub((A + ONE) - FMul(A - ONE, cosOmega), beta)),
          a1 |-> -2 * ((A - ONE) + FMul(A + ONE, cosOmega)),
          a2 |-> XSub((A + ONE) + FMul(A - ONE, cosOmega), beta)]
    [] type = BIQUAD_TYPE_HIGHSHELF ->
         [b0 |-> FMulF(A, XAdd((A + ONE) + FMul(A - ONE, cosOmega), beta)),
          b1 |-> FMul(-2 * A, (A - ONE) + FMul(A + ONE, cosOmega)),
          b2 |-> FMulF(A, XSub((A + ONE) + FMul(A - ONE, cosOmega), beta)),
          a1 |-> 2 * ((A - ONE) - FMul(A + ONE, cosOmega)),
          a2 |-> XSub((A + ONE) - FMul(A - ONE, cosOmega), beta)]
    [] OTHER ->
         [b0 |-> ONE, b1 |-> 0, b2 |-> 0, a1 |-> 0, a2 |-> 0]

\* "Normalize coefficients to a0 = 1.0": every coefficient divided by a0
Biquad_Normalize(state, raw, a0) ==
  [state EXCEPT !.b0 = FDivF(raw.b0, a0), !.b1 = FDivF(raw.b1, a0),
                !.b2 = FDivF(raw.b2, a0), !.a1 = FDivF(raw.a1, a0),
                !.a2 = FDivF(raw.a2, a0)]

\* The body of Biquad_CalculateCoefficients once cos(omega), alpha and
\* A = powf(10, gainDB / 40) are known; beta = 2 sqrt(A) alpha, a0 = 1 + alpha.
Biquad_Design(state, type, cosOmega, alpha, A) ==
  Biquad_Normalize(state,
    Biquad_RawCoefficients(type, cosOmega, alpha, A, FMulF(2 * FSqrt(A), alpha)),
    XAdd(ONE, alpha))

\* void Biquad_CalculateCoefficients(state, config), config = [type,
\* frequency (Hz), Q (tenths), gainDB, sampleRate].  The only guard is the one
\* on the sample rate; alpha divides by 2*Q whatever Q is.
Biquad_CalculateCoefficients(state, config) ==
  IF config.sampleRate <= 0 THEN state
  ELSE Biquad_Design(state, config.type,
         CosOmega(config.frequency, config.sampleRate),
         XDiv(XMul(SinOmega(config.frequency, config.sampleRate), Q_TENTHS),
              2 * config.Q),
         Exp2(config.gainDB, 12))
\* void Biquad_Init(state, config)
Biquad_Init(state, config) == Biquad_CalculateCoefficients(Biquad_Reset(state), config)

\* The two assignments after w0 in Biquad_DirectFormII: the output and the
\* shifted history.
Biquad_Output(state, w0) ==
  [state |-> [state EXCEPT !.y2 = state.y1, !.y1 = w0],
   output |-> XAdd(XAdd(FMulF(state.b0, w0), FMulF(state.b1, state.y1)),
                   FMulF(state.b2, state.y2))]

\* static float Biquad_DirectFormII(state, input): [state, output]
Biquad_DirectFormII(state, input) ==
  Biquad_Output(state,
    XSub(XSub(input, FMulF(state.a1, state.y1)), FMulF(state.a2, state.y2)))
\* float Biquad_ProcessSample(state, input)
Biquad_ProcessSample(state, input) == Biquad_DirectFormII(state, input)

\* True when every coefficient and every history value is a finite number.
Biquad_IsFinite(state) ==
  \A f \in {"b0", "b1", "b2", "a1", "a2", "x1", "x2", "y1", "y2"} : IsFinite(state[f])

\* ---------------------------------------------------------------------
\* Crossover (crossover_filter.c)
\* ---------------------------------------------------------------------

MAX_FILTER_STAGES == 8
MAX_FILTER_ORDER == 12
CROSSOVER_MIN_FREQ == 20
CROSSOVER_MAX_FREQ == 20000
\* crossover_config.c: its own limits of a cutoff, in Hz
MIN_CROSSOVER_FREQ == 20
MAX_CROSSOVER_FREQ == 20000

CROSSOVER_MODE_LOWPASS == "LOWPASS"
CROSSOVER_MODE_HIGHPASS == "HIGHPASS"
CROSSOVER_MODE_BANDPASS == "BANDPASS"
CROSSOVER_MODE_FULLRANGE == "FULLRANGE"
CrossoverModes == {CROSSOVER_MODE_LOWPASS, CROSSOVER_MODE_HIGHPASS,
                   CROSSOVER_MODE_BANDPASS, CROSSOVER_MODE_FULLRANGE}

CROSSOVER_TYPE_BUTTERWORTH == "BUTTERWORTH"
CROSSOVER_TYPE_LINKWITZ_RILEY == "LINKWITZ_RILEY"
CROSSOVER_TYPE_BESSEL == "BESSEL"

CrossoverTypes == {CROSSOVER_TYPE_BUTTERWORTH, CROSSOVER_TYPE_LINKWITZ_RILEY,
                   CROSSOVER_TYPE_BESSEL}

CROSSOVER_FREQ_LOW == "LOW"
CROSSOVER_FREQ_HIGH == "HIGH"

Stages == 0 .. (MAX_FILTER_STAGES - 1)

\* A FilterChain_TypeDef in zero-initialised static memory.
FilterChain_Zero ==
  [stages |-> [i \in Stages |-> Biquad_Zero], numStages |-> 0, gain |-> 0]

\* static uint8_t GetNumStagesForOrder(order)
GetNumStagesForOrder(order) ==
  LET n == (order \div 2) + (IF order % 2 # 0 THEN 1 ELSE 0)
  IN IF n > MAX_FILTER_STAGES THEN MAX_FILTER_STAGES ELSE n

\* static float ComputeGainCompensation(filterType, order)
ComputeGainCompensation(filterType, order) ==
  CASE filterType = CROSSOVER_TYPE_LINKWITZ_RILEY ->
         IF order = 2 THEN RoundDiv(9 * ONE, 10)
         ELSE IF order = 4 THEN RoundDiv(95 * ONE, 100)
         ELSE ONE
    [] filterType = CROSSOVER_TYPE_BESSEL ->
         IF order >= 4 THEN RoundDiv(105 * ONE, 100) ELSE ONE
    [] OTHER -> ONE

\* The Q (in tenths) of one second-order section of the response family:
\* the Butterworth pole-angle values, two cascaded Butterworth filters for
\* Linkwitz-Riley, the Bessel value.
SectionQ(filterType, stage, numStages) ==
  CASE filterType = CROSSOVER_TYPE_BUTTERWORTH ->
         IF numStages = 2 THEN (IF stage = 0 THEN 5 ELSE 13) ELSE 7
    [] filterType = CROSSOVER_TYPE_LINKWITZ_RILEY -> 7
    [] OTHER -> 6

\* Butterworth_LowPass, LinkwitzRiley_LowPass, Bessel_LowPass(&coeffs, stage,
\* numStages, freq, sampleRate): the section as a low-pass biquad design.
Crossover_LowPass(filterType, stage, numStages, freq, sampleRate) ==
  [type |-> BIQUAD_TYPE_LPF, frequency |-> freq,
   Q |-> SectionQ(filterType, stage, numStages), gainDB |-> 0,
   sampleRate |-> sampleRate]

\* Butterworth_HighPass, LinkwitzRiley_HighPass, Bessel_HighPass
Crossover_HighPass(filterType, stage, numStages, freq, sampleRate) ==
  [type |-> BIQUAD_TYPE_HPF, frequency |-> freq,
   Q |-> SectionQ(filterType, stage, numStages), gainDB |-> 0,
   sampleRate |-> sampleRate]

\* static void ClearFilterHistory(filter)
ClearFilterHistory(filter) ==
  [filter EXCEPT !.stages = [i \in Stages |->
     IF i < filter.numStages THEN Biquad_Reset(filter.stages[i]) ELSE filter.stages[i]]]

\* One "for each stage: design, Biquad_Init" loop of CalculateFilterCoefficients;
\* lowPass tells which of the two designs the loop calls.
InitStages(filter, numStages, lowPass, filterType, freq, sampleRate) ==
  [filter EXCEPT !.stages = [i \in Stages |->
     IF i < numStages
     THEN Biquad_Init(filter.stages[i],
            IF lowPass
            THEN Crossover_LowPass(filterType, i, numStages, freq, sampleRate)
            ELSE Crossover_HighPass(filterType, i, numStages, freq, sampleRate))
     ELSE filter.stages[i]]]

\* Crossover_ResetFilterState at the end of CalculateFilterCoefficients
ResetFilterState(g) ==
  [n \in {"highpass", "lowpass", "bandpassHigh", "bandpassLow"} |->
     ClearFilterHistory(g[n])]

\* The switch of CalculateFilterCoefficients on the filter mode, with the
\* stage counts already cleared.
DesignChains(cfg, cleared, numStages, gainCompensation, sampleRate) ==
  CASE cfg.filterMode = CROSSOVER_MODE_LOWPASS ->
         [cleared EXCEPT !.lowpass =
            InitStages([@ EXCEPT !.numStages = numStages, !.gain = gainCompensation],
                       numStages, TRUE, cfg.type, cfg.lowFrequency, sampleRate)]
    [] cfg.filterMode = CROSSOVER_MODE_HIGHPASS ->
         [cleared EXCEPT !.highpass =
            InitStages([@ EXCEPT !.numStages = numStages, !.gain = gainCompensation],
                       numStages, FALSE, cfg.type, cfg.highFrequency, sampleRate)]
    [] cfg.filterMode = CROSSOVER_MODE_BANDPASS ->
         [cleared EXCEPT
            !.bandpassHigh =
               InitStages([@ EXCEPT !.numStages = numStages, !.gain = gainCompensation],
                          numStages, FALSE, cfg.type, cfg.lowFrequency, sampleRate),
            !.bandpassLow =
               InitStages([@ EXCEPT !.numStages = numStages, !.gain = ONE],
                          numStages, TRUE, cfg.type, cfg.highFrequency, sampleRate)]
    [] OTHER -> cleared

\* A CalculateFilterCoefficients that stores the new coefficients and leaves
\* the history of every stage as it was.
CalculateFilterCoefficients_KeepHistory(cfg, f) ==
  LET g == DesignChains(cfg, [n \in DOMAIN f |-> [f[n] EXCEPT !.numStages = 0]],
                        GetNumStagesForOrder(cfg.order),
                        ComputeGainCompensation(cfg.type, cfg.order),
                        AUDIO_SAMPLE_RATE)
  IN [n \in DOMAIN f |->
        [g[n] EXCEPT !.stages = [i \in Stages |->
           [g[n].stages[i] EXCEPT !.x1 = f[n].stages[i].x1, !.x2 = f[n].stages[i].x2,
                                  !.y1 = f[n].stages[i].y1, !.y2 = f[n].stages[i].y2]]]]

\* static void CalculateFilterCoefficients(outputChannel), on the channel's
\* configuration cfg and its four chains f = [highpass, lowpass,
\* bandpassHigh, bandpassLow]; ends with Crossover_ResetFilterState.
CalculateFilterCoefficients(cfg, f) ==
  ResetFilterState(
    DesignChains(cfg, [n \in DOMAIN f |-> [f[n] EXCEPT !.numStages = 0]],
                 GetNumStagesForOrder(cfg.order),
                 ComputeGainCompensation(cfg.type, cfg.order),
                 AUDIO_SAMPLE_RATE))
\* The four filter chains of a channel, and storing them back.
ChainsOf(ch) ==
  [highpass |-> highpassFilters[ch], lowpass |-> lowpassFilters[ch],
   bandpassHigh |-> bandpassHighFilters[ch], bandpassLow |-> bandpassLowFilters[ch]]

StoreChains(ch, g) ==
  /\ highpassFilters' = [highpassFilters EXCEPT ![ch] = g.highpass]
  /\ lowpassFilters' = [lowpassFilters EXCEPT ![ch] = g.lowpass]
  /\ bandpassHighFilters' = [bandpassHighFilters EXCEPT ![ch] = g.bandpassHigh]
  /\ bandpassLowFilters' = [bandpassLowFilters EXCEPT ![ch] = g.bandpassLow]

\* void Crossover_Filter_Init(outputChannel): the default configuration
Crossover_DefaultConfig ==
  [type |-> CROSSOVER_TYPE_BUTTERWORTH, filterMode |-> CROSSOVER_MODE_LOWPASS,
   lowFrequency |-> 80, highFrequency |-> 2500, order |-> 4]

\* ... and the chains it leaves: gains 1.0, then CalculateFilterCoefficients
Crossover_Filter_Init ==
  CalculateFilterCoefficients(Crossover_DefaultConfig,
    [n \in {"highpass", "lowpass", "bandpassHigh", "bandpassLow"} |->
       [FilterChain_Zero EXCEPT !.gain = ONE]])

\* uint8_t Crossover_SetFilterMode(outputChannel, mode); a mode that is none
\* of the four stands for a value above CROSSOVER_MODE_FULLRANGE
Crossover_SetFilterMode(outputChannel, mode) ==
  /\ call' = [op |-> "Crossover_SetFilterMode", index |-> outputChannel, value |-> mode]
  /\ IF outputChannel >= AUDIO_OUTPUT_CHANNELS \/ mode \notin CrossoverModes
     THEN ret' = "1" /\ UNCHANGED crossoverVars
     ELSE LET cfg == [crossoverConfig[outputChannel] EXCEPT !.filterMode = mode]
          IN /\ ret' = "0"
             /\ crossoverConfig' = [crossoverConfig EXCEPT ![outputChannel] = cfg]
             /\ StoreChains(outputChannel,
                            CalculateFilterCoefficients(cfg, ChainsOf(outputChannel)))
  /\ UNCHANGED procBuffer
  /\ UNCHANGED notCrossover

\* The assignment of Crossover_SetFrequency to the configuration: the cutoff
\* is stored, and in band-pass mode kept 10 Hz away from the other cutoff.
Crossover_StoreFrequency(old, frequencyType, frequency) ==
  IF frequencyType = CROSSOVER_FREQ_LOW
  THEN [old EXCEPT !.lowFrequency =
          IF old.filterMode = CROSSOVER_MODE_BANDPASS /\ frequency >= old.highFrequency
          THEN old.highFrequency - 10 ELSE frequency]
  ELSE [old EXCEPT !.highFrequency =
          IF old.filterMode = CROSSOVER_MODE_BANDPASS /\ frequency <= old.lowFrequency
          THEN old.lowFrequency + 10 ELSE frequency]

\* uint8_t Crossover_SetFrequency(outputChannel, frequencyType, frequency)
Crossover_SetFrequency(outputChannel, frequencyType, frequency) ==
  /\ call' = [op |-> "Crossover_SetFrequency", index |-> outputChannel,
              value |-> [frequencyType |-> frequencyType, frequency |-> frequency]]
  /\ IF outputChannel >= AUDIO_OUTPUT_CHANNELS
     THEN ret' = "1" /\ UNCHANGED crossoverVars
     ELSE IF frequency < CROSSOVER_MIN_FREQ \/ frequency > CROSSOVER_MAX_FREQ
     THEN ret' = "1" /\ UNCHANGED crossoverVars
     ELSE /\ ret' = "0"
          /\ crossoverConfig' =
               [crossoverConfig EXCEPT ![outputChannel] =
                  Crossover_StoreFrequency(@, frequencyType, frequency)]
          /\ StoreChains(outputChannel,
               CalculateFilterCoefficients(
                 Crossover_StoreFrequency(crossoverConfig[outputChannel],
                                          frequencyType, frequency),
                 ChainsOf(outputChannel)))
  /\ UNCHANGED procBuffer
  /\ UNCHANGED notCrossover
\* uint8_t Crossover_SetFilterType(outputChannel, type); a type that is none
\* of the three stands for a value above CROSSOVER_TYPE_BESSEL
Crossover_SetFilterType(outputChannel, type) ==
  /\ call' = [op |-> "Crossover_SetFilterType", index |-> outputChannel, value |-> type]
  /\ IF outputChannel >= AUDIO_OUTPUT_CHANNELS \/ type \notin CrossoverTypes
     THEN ret' = "1" /\ UNCHANGED crossoverVars
     ELSE LET cfg == [crossoverConfig[outputChannel] EXCEPT !.type = type]
          IN /\ ret' = "0"
             /\ crossoverConfig' = [crossoverConfig EXCEPT ![outputChannel] = cfg]
             /\ StoreChains(outputChannel,
                            CalculateFilterCoefficients(cfg, ChainsOf(outputChannel)))
  /\ UNCHANGED procBuffer
  /\ UNCHANGED notCrossover

\* uint8_t Crossover_SetOrder(outputChannel, order): an odd order of a
\* Linkwitz-Riley filter is rounded up to the next even number
Crossover_SetOrder(outputChannel, order) ==
  /\ call' = [op |-> "Crossover_SetOrder", index |-> outputChannel, value |-> order]
  /\ IF outputChannel >= AUDIO_OUTPUT_CHANNELS \/ order < 1 \/ order > MAX_FILTER_ORDER
     THEN ret' = "1" /\ UNCHANGED crossoverVars
     ELSE LET old == crossoverConfig[outputChannel]
              cfg == [old EXCEPT !.order =
                        IF old.type = CROSSOVER_TYPE_LINKWITZ_RILEY /\ order % 2 # 0
                        THEN order + 1 ELSE order]
          IN /\ ret' = "0"
             /\ crossoverConfig' = [crossoverConfig EXCEPT ![outputChannel] = cfg]
             /\ StoreChains(outputChannel,
                            CalculateFilterCoefficients(cfg, ChainsOf(outputChannel)))
  /\ UNCHANGED procBuffer
  /\ UNCHANGED notCrossover

\* static float ProcessFilterChain(filter, input): [filter, output]
RECURSIVE ProcessStages(_, _, _)
ProcessStages(filter, i, sample) ==
  IF i >= filter.numStages THEN [filter |-> filter, output |-> sample]
  ELSE LET r == Biquad_ProcessSample(filter.stages[i], sample)
       IN ProcessStages([filter EXCEPT !.stages[i] = r.state], i + 1, r.output)

ProcessFilterChain(filter, input) ==
  IF filter.numStages = 0 THEN [filter |-> filter, output |-> input]
  ELSE LET r == ProcessStages(filter, 0, input)
       IN [filter |-> r.filter, output |-> FMulF(r.output, filter.gain)]

\* The switch of Crossover_ProcessSample on the filter mode: the chains f
\* after the sample went through, and the sample returned.
Crossover_Filter(mode, f, input) ==
  CASE mode = CROSSOVER_MODE_LOWPASS ->
         [chains |-> [f EXCEPT !.lowpass = ProcessFilterChain(@, input).filter],
          output |-> ProcessFilterChain(f.lowpass, input).output]
    [] mode = CROSSOVER_MODE_HIGHPASS ->
         [chains |-> [f EXCEPT !.highpass = ProcessFilterChain(@, input).filter],
          output |-> ProcessFilterChain(f.highpass, input).output]
    [] mode = CROSSOVER_MODE_BANDPASS ->
         LET r1 == ProcessFilterChain(f.bandpassHigh, input)
             r2 == ProcessFilterChain(f.bandpassLow, r1.output)
         IN [chains |-> [f EXCEPT !.bandpassHigh = r1.filter, !.bandpassLow = r2.filter],
             output |-> r2.output]
    [] OTHER -> [chains |-> f, output |-> input]

\* float Crossover_ProcessSample(outputChannel, input); the sample returned
\* is left in procBuffer
Crossover_ProcessSample(outputChannel, input) ==
  /\ call' = [op |-> "Crossover_ProcessSample", index |-> outputChannel,
              value |-> [buf |-> Ptr(<<input>>), size |-> 1]]
  /\ ret' = VOID
  /\ IF outputChannel >= AUDIO_OUTPUT_CHANNELS
     THEN procBuffer' = Ptr(<<input>>) /\ UNCHANGED crossoverVars
     ELSE \E r \in {Crossover_Filter(crossoverConfig[outputChannel].filterMode,
                                     ChainsOf(outputChannel), input)} :
            /\ procBuffer' = Ptr(<<r.output>>)
            /\ StoreChains(outputChannel, r.chains)
            /\ UNCHANGED crossoverConfig
  /\ UNCHANGED notCrossover
\* Every channel holds the configuration cfg and the chains f.
CrossoverIs(cfg, f) ==
  /\ crossoverConfig = [ch \in OutChannels |-> cfg]
  /\ highpassFilters = [ch \in OutChannels |-> f.highpass]
  /\ lowpassFilters = [ch \in OutChannels |-> f.lowpass]
  /\ bandpassHighFilters = [ch \in OutChannels |-> f.bandpassHigh]
  /\ bandpassLowFilters = [ch \in OutChannels |-> f.bandpassLow]

InitCrossover == CrossoverIs(Crossover_DefaultConfig, Crossover_Filter_Init)
\* ---------------------------------------------------------------------
\* Parametric equaliser (peq_filter.c)
\* ---------------------------------------------------------------------

PEQ_MAX_BANDS_PER_CHANNEL == 5
PEQ_MAX_Q_FACTOR_TENTHS == 200
PEQ_MIN_FREQ == 20
PEQ_MAX_FREQ == 20000
PEQ_MIN_Q_TENTHS == 1
PEQ_MAX_Q_TENTHS == 100
PEQ_MIN_GAIN == -12
PEQ_MAX_GAIN == 12

PEQ_TYPE_BELL == "BELL"
PEQ_TYPE_LOW_SHELF == "LOW_SHELF"
PEQ_TYPE_HIGH_SHELF == "HIGH_SHELF"
PEQ_TYPE_LOW_PASS == "LOW_PASS"
PEQ_TYPE_HIGH_PASS == "HIGH_PASS"

Bands == 0 .. (PEQ_MAX_BANDS_PER_CHANNEL - 1)

\* "Limit parameters to safe values", the head of every PEQ_Calculate*:
\* only an upper limit on Q, and the frequency moved into (0, fs/2).
PEQ_SafeQ(Q) == IF Q > PEQ_MAX_Q_FACTOR_TENTHS THEN PEQ_MAX_Q_FACTOR_TENTHS ELSE Q

PEQ_SafeFreq(freq, fs) ==
  LET f1 == IF freq <= 0 THEN 20 ELSE freq
  IN IF 2 * f1 >= fs THEN fs \div 2 - 1 ELSE f1

\* "Normalize by a0", the tail of every PEQ_Calculate*
PEQ_Normalize(c) ==
  [b0 |-> FDivF(c.b0, c.a0), b1 |-> FDivF(c.b1, c.a0), b2 |-> FDivF(c.b2, c.a0),
   a1 |-> FDivF(c.a1, c.a0), a2 |-> FDivF(c.a2, c.a0)]

\* alpha = sn / (2.0f * Q), with Q in tenths
PEQ_Alpha(freq, Q, fs) ==
  XDiv(XMul(SinOmega(PEQ_SafeFreq(freq, fs), fs), Q_TENTHS), 2 * PEQ_SafeQ(Q))

\* static void PEQ_CalculateBell(centerFreq, gain, Q, fs, coeffs)
PEQ_CalculateBell(centerFreq, gain, Q, fs) ==
  LET A == Exp2(gain, 12)
      cs == CosOmega(PEQ_SafeFreq(centerFreq, fs), fs)
      alpha == PEQ_Alpha(centerFreq, Q, fs)
  IN PEQ_Normalize(
       [b0 |-> XAdd(ONE, FMulF(alpha, A)), b1 |-> -2 * cs,
        b2 |-> XSub(ONE, FMulF(alpha, A)),
        a0 |-> XAdd(ONE, FDivF(alpha, A)), a1 |-> -2 * cs,
        a2 |-> XSub(ONE, FDivF(alpha, A))])

\* static void PEQ_CalculateLowShelf(cutoffFreq, gain, Q, fs, coeffs)
PEQ_CalculateLowShelf(cutoffFreq, gain, Q, fs) ==
  LET A == Exp2(gain, 12)
      cs == CosOmega(PEQ_SafeFreq(cutoffFreq, fs), fs)
      beta == FMulF(2 * FSqrt(A), PEQ_Alpha(cutoffFreq, Q, fs))
      Ap1 == A + ONE
      Am1 == A - ONE
  IN PEQ_Normalize(
       [b0 |-> FMulF(A, XAdd(Ap1 - FMul(Am1, cs), beta)),
        b1 |-> FMul(2 * A, Am1 - FMul(Ap1, cs)),
        b2 |-> FMulF(A, XSub(Ap1 - FMul(Am1, cs), beta)),
        a0 |-> XAdd(Ap1 + FMul(Am1, cs), beta),
        a1 |-> -2 * (Am1 + FMul(Ap1, cs)),
        a2 |-> XSub(Ap1 + FMul(Am1, cs), beta)])

\* static void PEQ_CalculateHighShelf(cutoffFreq, gain, Q, fs, coeffs)
PEQ_CalculateHighShelf(cutoffFreq, gain, Q, fs) ==
  LET A == Exp2(gain, 12)
      cs == CosOmega(PEQ_SafeFreq(cutoffFreq, fs), fs)
      beta == FMulF(2 * FSqrt(A), PEQ_Alpha(cutoffFreq, Q, fs))
      Ap1 == A + ONE
      Am1 == A - ONE
  IN PEQ_Normalize(
       [b0 |-> FMulF(A, XAdd(Ap1 + FMul(Am1, cs), beta)),
        b1 |-> FMul(-2 * A, Am1 + FMul(Ap1, cs)),
        b2 |-> FMulF(A, XSub(Ap1 + FMul(Am1, cs), beta)),
        a0 |-> XAdd(Ap1 - FMul(Am1, cs), beta),
        a1 |-> 2 * (Am1 - FMul(Ap1, cs)),
        a2 |-> XSub(Ap1 - FMul(Am1, cs), beta)])

\* static void PEQ_CalculateLowPass(cutoffFreq, Q, fs, coeffs)
PEQ_CalculateLowPass(cutoffFreq, Q, fs) ==
  LET cs == CosOmega(PEQ_SafeFreq(cutoffFreq, fs), fs)
      alpha == PEQ_Alpha(cutoffFreq, Q, fs)
  IN PEQ_Normalize(
       [b0 |-> RoundDiv(ONE - cs, 2), b1 |-> ONE - cs, b2 |-> RoundDiv(ONE - cs, 2),
        a0 |-> XAdd(ONE, alpha), a1 |-> -2 * cs, a2 |-> XSub(ONE, alpha)])

\* static void PEQ_CalculateHighPass(cutoffFreq, Q, fs, coeffs)
PEQ_CalculateHighPass(cutoffFreq, Q, fs) ==
  LET cs == CosOmega(PEQ_SafeFreq(cutoffFreq, fs), fs)
      alpha == PEQ_Alpha(cutoffFreq, Q, fs)
  IN PEQ_Normalize(
       [b0 |-> RoundDiv(ONE + cs, 2), b1 |-> -(ONE + cs), b2 |-> RoundDiv(ONE + cs, 2),
        a0 |-> XAdd(ONE, alpha), a1 |-> -2 * cs, a2 |-> XSub(ONE, alpha)])

\* Biquad_SetCoefficients(state, coeffs): stores the five coefficients
Biquad_SetCoefficients(state, coeffs) ==
  [state EXCEPT !.b0 = coeffs.b0, !.b1 = coeffs.b1, !.b2 = coeffs.b2,
                !.a1 = coeffs.a1, !.a2 = coeffs.a2]

\* static void PEQ_UpdateFilterCoefficients(channel, band): the new biquad
\* of a band with configuration peqBand
PEQ_UpdateFilterCoefficients(state, peqBand) ==
  LET fs == AUDIO_SAMPLE_RATE
      coeffs ==
        CASE peqBand.type = PEQ_TYPE_BELL ->
               PEQ_CalculateBell(peqBand.frequency, peqBand.gain, peqBand.q, fs)
          [] peqBand.type = PEQ_TYPE_LOW_SHELF ->
               PEQ_CalculateLowShelf(peqBand.frequency, peqBand.gain, peqBand.q, fs)
          [] peqBand.type = PEQ_TYPE_HIGH_SHELF ->
               PEQ_CalculateHighShelf(peqBand.frequency, peqBand.gain, peqBand.q, fs)
          [] peqBand.type = PEQ_TYPE_LOW_PASS ->
               PEQ_CalculateLowPass(peqBand.frequency, peqBand.q, fs)
          [] peqBand.type = PEQ_TYPE_HIGH_PASS ->
               PEQ_CalculateHighPass(peqBand.frequency, peqBand.q, fs)
          [] OTHER -> [b0 |-> ONE, b1 |-> 0, b2 |-> 0, a1 |-> 0, a2 |-> 0]
  IN Biquad_SetCoefficients(state, coeffs)

\* void PEQ_Init(void): every band a disabled 1 kHz bell at 0 dB, Q = 1.414
PEQ_DefaultBand ==
  [type |-> PEQ_TYPE_BELL, frequency |-> 1000, gain |-> 0, q |-> 14, enabled |-> 0]

\* HAL_StatusTypeDef PEQ_ConfigureBand(channel, band, config)
PEQ_ConfigureBand(channel, band, config) ==
  /\ call' = [op |-> "PEQ_ConfigureBand", index |-> <<channel, band>>, value |-> config]
  /\ IF channel >= AUDIO_OUTPUT_CHANNELS \/ band >= PEQ_MAX_BANDS_PER_CHANNEL \/ config.null
     THEN ret' = HAL_ERROR /\ UNCHANGED peqVars
     ELSE LET c == [type |-> config.v.type,
                    frequency |-> CLAMP(config.v.frequency, PEQ_MIN_FREQ, PEQ_MAX_FREQ),
                    gain |-> CLAMP(config.v.gain, PEQ_MIN_GAIN, PEQ_MAX_GAIN),
                    q |-> CLAMP(config.v.q, PEQ_MIN_Q_TENTHS, PEQ_MAX_Q_TENTHS),
                    enabled |-> config.v.enabled]
          IN /\ ret' = HAL_OK
             /\ PEQBands' = [PEQBands EXCEPT ![channel][band] = c]
             /\ PEQBiquadStates' = [PEQBiquadStates EXCEPT ![channel][band] =
                                      PEQ_UpdateFilterCoefficients(@, c)]
  /\ UNCHANGED procBuffer
  /\ UNCHANGED notPeq

\* HAL_StatusTypeDef PEQ_SetBandEnabled(channel, band, enabled)
PEQ_SetBandEnabled(channel, band, enabled) ==
  /\ call' = [op |-> "PEQ_SetBandEnabled", index |-> <<channel, band>>, value |-> enabled]
  /\ IF channel >= AUDIO_OUTPUT_CHANNELS \/ band >= PEQ_MAX_BANDS_PER_CHANNEL
     THEN ret' = HAL_ERROR /\ UNCHANGED PEQBands
     ELSE /\ ret' = HAL_OK
          /\ PEQBands' = [PEQBands EXCEPT ![channel][band].enabled =
                            IF enabled # 0 THEN 1 ELSE 0]
  /\ UNCHANGED <<PEQBiquadStates, procBuffer>>
  /\ UNCHANGED notPeq

\* The band loop of PEQ_ProcessChannel for one sample: [states, sample]
RECURSIVE PEQ_ProcessBands(_, _, _, _)
PEQ_ProcessBands(bands, states, band, tempSample) ==
  IF band >= PEQ_MAX_BANDS_PER_CHANNEL THEN [states |-> states, sample |-> tempSample]
  ELSE IF bands[band].enabled = 0
  THEN PEQ_ProcessBands(bands, states, band + 1, tempSample)
  ELSE LET r == Biquad_ProcessSample(states[band], tempSample)
       IN PEQ_ProcessBands(bands, [states EXCEPT ![band] = r.state], band + 1, r.output)

\* The sample loop of PEQ_ProcessChannel: [states, samples]
RECURSIVE PEQ_ProcessSamples(_, _, _, _)
PEQ_ProcessSamples(bands, states, samples, i) ==
  IF i > Len(samples) THEN [states |-> states, samples |-> samples]
  ELSE LET r == PEQ_ProcessBands(bands, states, 0, samples[i])
       IN PEQ_ProcessSamples(bands, r.states, [samples EXCEPT ![i] = r.sample], i + 1)

\* void PEQ_ProcessChannel(channel, audioBuffer); audioBuffer holds the
\* frameSize samples of the channel
PEQ_ProcessChannel(channel, audioBuffer) ==
  /\ call' = [op |-> "PEQ_ProcessChannel", index |-> channel,
              value |-> [buf |-> audioBuffer,
                         size |-> IF audioBuffer.null THEN 0 ELSE Len(audioBuffer.v)]]
  /\ ret' = VOID
  /\ IF channel >= AUDIO_OUTPUT_CHANNELS \/ audioBuffer.null
     THEN procBuffer' = audioBuffer /\ UNCHANGED PEQBiquadStates
     ELSE LET r == PEQ_ProcessSamples(PEQBands[channel], PEQBiquadStates[channel],
                                      audioBuffer.v, 1)
          IN /\ procBuffer' = Ptr(r.samples)
             /\ PEQBiquadStates' = [PEQBiquadStates EXCEPT ![channel] = r.states]
  /\ UNCHANGED PEQBands
  /\ UNCHANGED notPeq

\* The biquads PEQ_Init leaves: every band designed from its default setting.
PEQ_InitStates ==
  [ch \in OutChannels |-> [b \in Bands |->
     PEQ_UpdateFilterCoefficients(Biquad_Zero, PEQ_DefaultBand)]]

InitPeq ==
  /\ PEQBands = [ch \in OutChannels |-> [b \in Bands |-> PEQ_DefaultBand]]
  /\ PEQBiquadStates = PEQ_InitStates

\* ---------------------------------------------------------------------
\* Compressor (compressor_proc.c)
\* ---------------------------------------------------------------------

\* Levels and gains in dB are whole dB, times are tenths of a millisecond,
\* the ratio is in tenths.
COMP_DB_MIN == -120
COMP_ENVELOPE_INIT == -120
COMP_GAIN_SMOOTHING_COEF_E4 == 9995
COMP_MIN_GAIN_DB == -60
COMP_MAX_GAIN_DB == 0
RATIO_TENTHS == 10

\* The RMS window (COMP_RMS_WINDOW_SIZE samples in the program)
RmsWindow == 2

\* DB_TO_LINEAR(x)
DB_TO_LINEAR(x) == IF x <= COMP_DB_MIN THEN 0 ELSE Exp2(x, 6)

\* 20 log10 of a positive fixed-point value: 6 dB per octave, linear between
RECURSIVE Log2Db(_)
Log2Db(x) ==
  IF x >= 2 * ONE THEN 6 + Log2Db(x \div 2)
  ELSE IF x < ONE THEN Log2Db(2 * x) - 6
  ELSE RoundDiv(6 * (x - ONE), ONE)

\* LINEAR_TO_DB(x)
LINEAR_TO_DB(x) == IF x <= 0 THEN COMP_DB_MIN ELSE Log2Db(x)

\* CLAMP(x, min, max) on a float that may not be finite: a comparison with
\* NaN is false, so MAX(NaN, min) is min
XClamp(x, lo, hi) ==
  CASE x = F_NAN \/ x = F_NINF -> lo
    [] x = F_INF -> hi
    [] OTHER -> CLAMP(x, lo, hi)

\* expf(-1 / (AUDIO_SAMPLE_RATE * time / 1000)) for a time in tenths of a
\* millisecond: n / (n + 1) with n the time in samples
Compressor_TimeCoeff(time) ==
  IF time <= 1 THEN 0
  ELSE RoundDiv(ONE * (AUDIO_SAMPLE_RATE \div 100) * time,
                (AUDIO_SAMPLE_RATE \div 100) * time + 100)

\* void Compressor_UpdateParameters(channel), on the state of the channel
Compressor_UpdateParameters(st) ==
  [st EXCEPT !.attackCoeff = Compressor_TimeCoeff(st.params.attackTime_ms),
             !.releaseCoeff = Compressor_TimeCoeff(st.params.releaseTime_ms)]

\* void Compressor_Init(void): the state of one channel
Compressor_DefaultParams ==
  [enabled |-> 0, threshold_db |-> -20, ratio |-> 40, attackTime_ms |-> 200,
   releaseTime_ms |-> 2000, makeupGain_db |-> 0, kneeWidth_db |-> 6,
   useSoftKnee |-> 1, useRMS |-> 1]

Compressor_InitState ==
  Compressor_UpdateParameters(
    [envelope_db |-> COMP_ENVELOPE_INIT, currentGain |-> ONE, prevGainDb |-> 0,
     rmsValue |-> 0, attackCoeff |-> 0, releaseCoeff |-> 0,
     params |-> Compressor_DefaultParams,
     stats |-> [gainReduction_db |-> 0, inputLevel_db |-> 0, outputLevel_db |-> 0]])

\* static float Compressor_ApplySoftKnee(params, input_db)
Compressor_ApplySoftKnee(params, input_db) ==
  LET threshold_db == params.threshold_db
      knee_width == params.kneeWidth_db
      knee_lower == threshold_db - RoundDiv(knee_width, 2)
      knee_upper == threshold_db + RoundDiv(knee_width, 2)
  IN IF input_db < knee_lower THEN 0
     ELSE IF input_db > knee_upper
     THEN LET excess_db == input_db - threshold_db
          IN XNeg(XSub(excess_db, XDiv(excess_db * RATIO_TENTHS, params.ratio)))
     ELSE LET transition_ratio ==
                XAdd(RATIO_TENTHS,
                     XDiv(XMul(params.ratio - RATIO_TENTHS, input_db - knee_lower),
                          knee_width))
              excess_db == input_db - knee_lower
          IN XNeg(XSub(excess_db, XDiv(XMul(excess_db, RATIO_TENTHS), transition_ratio)))

\* static float Compressor_CalculateGain(channel, envelope_db)
Compressor_CalculateGain(st, envelope_db) ==
  LET params == st.params
      gain_db ==
        IF params.useSoftKnee # 0 THEN Compressor_ApplySoftKnee(params, envelope_db)
        ELSE IF envelope_db > params.threshold_db
        THEN LET excess_db == envelope_db - params.threshold_db
             IN XNeg(XSub(excess_db, XDiv(excess_db * RATIO_TENTHS, params.ratio)))
        ELSE 0
  IN XClamp(gain_db, COMP_MIN_GAIN_DB, COMP_MAX_GAIN_DB)

\* static float Compressor_CalculateEnvelope(channel, level_db): the new envelope
Compressor_CalculateEnvelope(st, level_db) ==
  LET coeff == IF level_db > st.envelope_db THEN st.attackCoeff ELSE st.releaseCoeff
  IN RoundDiv(coeff * st.envelope_db + (ONE - coeff) * level_db, ONE)

\* static float Compressor_CalculateRMS(channel, sample): [buffer, index, rms]
Compressor_CalculateRMS(buffer, index, sample) ==
  LET b == [buffer EXCEPT ![index] = FMul(sample, sample)]
      RECURSIVE Sum(_)
      Sum(i) == IF i >= RmsWindow THEN 0 ELSE b[i] + Sum(i + 1)
  IN [buffer |-> b, index |-> (index + 1) % RmsWindow,
      rms |-> FSqrt(RoundDiv(Sum(0), RmsWindow))]

\* The sample loop of Compressor_Process: [st, buffer, index, data]
RECURSIVE Compressor_ProcessLoop(_, _, _, _, _)
Compressor_ProcessLoop(st, buffer, index, data, i) ==
  IF i > Len(data) THEN [st |-> st, buffer |-> buffer, index |-> index, data |-> data]
  ELSE
  LET sample == data[i]
      rms == Compressor_CalculateRMS(buffer, index, sample)
      useRMS == st.params.useRMS # 0
      level == IF useRMS THEN rms.rms ELSE Abs(sample)
      level_db == IF level > 0 THEN LINEAR_TO_DB(level) ELSE COMP_DB_MIN
      envelope_db == Compressor_CalculateEnvelope(st, level_db)
      gain_db == Compressor_CalculateGain(st, envelope_db) + st.params.makeupGain_db
      prevGainDb == RoundDiv(st.prevGainDb * COMP_GAIN_SMOOTHING_COEF_E4
                             + gain_db * (10000 - COMP_GAIN_SMOOTHING_COEF_E4), 10000)
      gain == DB_TO_LINEAR(prevGainDb)
      st1 == [st EXCEPT !.rmsValue = IF useRMS THEN rms.rms ELSE @,
                        !.envelope_db = envelope_db,
                        !.prevGainDb = prevGainDb,
                        !.currentGain = gain]
  IN Compressor_ProcessLoop(st1,
                            IF useRMS THEN rms.buffer ELSE buffer,
                            IF useRMS THEN rms.index ELSE index,
                            [data EXCEPT ![i] = FMul(sample, gain)], i + 1)

\* void Compressor_Process(channel, audioBuffer); audioBuffer holds the
\* samples audioBuffer->data[channel][0 .. size-1]
Compressor_Process(channel, audioBuffer) ==
  /\ call' = [op |-> "Compressor_Process", index |-> channel,
              value |-> [buf |-> audioBuffer,
                         size |-> IF audioBuffer.null THEN 0 ELSE Len(audioBuffer.v)]]
  /\ ret' = VOID
  /\ IF channel >= AUDIO_OUTPUT_CHANNELS \/ audioBuffer.null
     THEN procBuffer' = audioBuffer /\ UNCHANGED compressorVars
     ELSE IF compressorState[channel].params.enabled = 0
     THEN procBuffer' = audioBuffer /\ UNCHANGED compressorVars
     ELSE LET r == Compressor_ProcessLoop(compressorState[channel], rmsBuffer[channel],
                                          rmsBufferIndex[channel], audioBuffer.v, 1)
              gainReduction_db == r.st.params.makeupGain_db - r.st.prevGainDb
              inputLevel_db == LINEAR_TO_DB(r.st.rmsValue)
          IN /\ procBuffer' = Ptr(r.data)
             /\ compressorState' = [compressorState EXCEPT ![channel] =
                  [r.st EXCEPT !.stats =
                     [gainReduction_db |-> gainReduction_db,
                      inputLevel_db |-> inputLevel_db,
                      outputLevel_db |-> inputLevel_db - gainReduction_db]]]
             /\ rmsBuffer' = [rmsBuffer EXCEPT ![channel] = r.buffer]
             /\ rmsBufferIndex' = [rmsBufferIndex EXCEPT ![channel] = r.index]
  /\ UNCHANGED notCompressor

\* void Compressor_SetEnabled(channel, enabled), compressor_proc.c
Compressor_SetEnabled(channel, enabled) ==
  /\ call' = [op |-> "Compressor_SetEnabled", index |-> channel, value |-> enabled]
  /\ ret' = VOID
  /\ IF channel >= AUDIO_OUTPUT_CHANNELS
     THEN UNCHANGED compressorState
     ELSE compressorState' = [compressorState EXCEPT ![channel] =
            IF enabled = 0
            THEN [@ EXCEPT !.params.enabled = enabled,
                           !.envelope_db = COMP_ENVELOPE_INIT,
                           !.currentGain = ONE,
                           !.prevGainDb = 0]
            ELSE [@ EXCEPT !.params.enabled = enabled]]
  /\ UNCHANGED <<rmsBuffer, rmsBufferIndex, procBuffer>>
  /\ UNCHANGED notCompressor

\* void Compressor_SetParameters(channel, params): the parameters are copied
\* as they are
Compressor_SetParameters(channel, params) ==
  /\ call' = [op |-> "Compressor_SetParameters", index |-> channel, value |-> params]
  /\ ret' = VOID
  /\ IF channel >= AUDIO_OUTPUT_CHANNELS \/ params.null
     THEN UNCHANGED compressorState
     ELSE compressorState' = [compressorState EXCEPT ![channel] =
            Compressor_UpdateParameters([@ EXCEPT !.params = params.v])]
  /\ UNCHANGED <<rmsBuffer, rmsBufferIndex, procBuffer>>
  /\ UNCHANGED notCompressor

\* void Compressor_ResetChannel(channel): the state of the channel, its RMS
\* window and the index into it
Compressor_ResetChannelState(st) ==
  [st |-> [st EXCEPT !.envelope_db = COMP_ENVELOPE_INIT, !.currentGain = ONE,
                     !.prevGainDb = 0, !.rmsValue = 0,
                     !.stats = [gainReduction_db |-> 0, inputLevel_db |-> 0,
                                outputLevel_db |-> 0]],
   buffer |-> [i \in 0 .. (RmsWindow - 1) |-> 0],
   index |-> 0]

InitCompressor ==
  /\ compressorState = [ch \in OutChannels |-> Compressor_InitState]
  /\ rmsBuffer = [ch \in OutChannels |-> [i \in 0 .. (RmsWindow - 1) |-> 0]]
  /\ rmsBufferIndex = [ch \in OutChannels |-> 0]

\* ---------------------------------------------------------------------
\* Compressor parameters (compressor_init.c)
\* ---------------------------------------------------------------------

COMPRESSOR_MIN_THRESHOLD == -60
COMPRESSOR_MAX_THRESHOLD == 0

\* The parameters Compressor_Init writes: threshold -20 dB, ratio 4:1, attack
\* 10 ms, release 100 ms, knee 6 dB, no makeup gain, disabled.
Compressor_InitParams ==
  [thresholdDb |-> -20, ratio |-> 4 * RATIO_TENTHS, attackTimeMs |-> 100,
   releaseTimeMs |-> 1000, kneeWidthDb |-> 6, makeupGainDb |-> 0,
   sampleRate |-> AUDIO_SAMPLE_RATE, enabled |-> 0]

\* A Compressor_State_TypeDef after memset(.., 0, ..)
Compressor_ZeroState ==
  [thresholdLin |-> 0, attackCoeff |-> 0, releaseCoeff |-> 0, makeupGainLin |-> 0,
   kneeStart |-> 0, kneeEnd |-> 0, kneeStartLin |-> 0, kneeEndLin |-> 0,
   kneeWidthLin |-> 0, ratioFactor |-> 0, calculatedGain |-> 0,
   currentEnvelope |-> 0, isEnabled |-> 0]

\* The knee branch of Compressor_CalculateCoefficients
Compressor_KneeCoefficients(params, state) ==
  IF params.kneeWidthDb > 0
  THEN [state EXCEPT
          !.kneeStart = params.thresholdDb - RoundDiv(params.kneeWidthDb, 2),
          !.kneeEnd = params.thresholdDb + RoundDiv(params.kneeWidthDb, 2),
          !.kneeStartLin = DB_TO_LINEAR(params.thresholdDb - RoundDiv(params.kneeWidthDb, 2)),
          !.kneeEndLin = DB_TO_LINEAR(params.thresholdDb + RoundDiv(params.kneeWidthDb, 2)),
          !.kneeWidthLin = DB_TO_LINEAR(params.thresholdDb + RoundDiv(params.kneeWidthDb, 2))
                           - DB_TO_LINEAR(params.thresholdDb - RoundDiv(params.kneeWidthDb, 2))]
  ELSE [state EXCEPT
          !.kneeStart = params.thresholdDb, !.kneeEnd = params.thresholdDb,
          !.kneeStartLin = state.thresholdLin, !.kneeEndLin = state.thresholdLin,
          !.kneeWidthLin = 0]

\* static void Compressor_CalculateCoefficients(channelIndex), on the
\* parameters and the state of the channel
Compressor_CalculateCoefficients(params, state) ==
  [Compressor_KneeCoefficients(params,
     [state EXCEPT !.thresholdLin = DB_TO_LINEAR(params.thresholdDb),
                   !.attackCoeff = Compressor_TimeCoeff(params.attackTimeMs),
                   !.releaseCoeff = Compressor_TimeCoeff(params.releaseTimeMs),
                   !.makeupGainLin = DB_TO_LINEAR(params.makeupGainDb)])
   EXCEPT !.ratioFactor = XSub(ONE, XDiv(ONE * RATIO_TENTHS, params.ratio)),
          !.calculatedGain = ONE,
          !.currentEnvelope = 0,
          !.isEnabled = params.enabled]

\* int8_t Compressor_SetThreshold(channelIndex, thresholdDb)
Compressor_SetThreshold(channelIndex, thresholdDb) ==
  /\ call' = [op |-> "Compressor_SetThreshold", index |-> channelIndex,
              value |-> thresholdDb]
  /\ IF channelIndex >= AUDIO_OUTPUT_CHANNELS
     THEN ret' = "-1" /\ UNCHANGED compressorInitVars
     ELSE /\ ret' = "0"
          /\ compressorParams' = [compressorParams EXCEPT ![channelIndex].thresholdDb =
               CLAMP(thresholdDb, COMPRESSOR_MIN_THRESHOLD, COMPRESSOR_MAX_THRESHOLD)]
          /\ compressorCoeffState' = [compressorCoeffState EXCEPT ![channelIndex] =
               Compressor_CalculateCoefficients(
                 [compressorParams[channelIndex] EXCEPT !.thresholdDb =
                    CLAMP(thresholdDb, COMPRESSOR_MIN_THRESHOLD, COMPRESSOR_MAX_THRESHOLD)],
                 @)]
  /\ UNCHANGED <<peqConfig, peqInitVars, crossoverInitVars, crossoverSettings, callerVars, procBuffer>>
  /\ UNCHANGED notControl

\* int8_t Compressor_SetEnabled(channelIndex, enabled) of compressor_init.c
Compressor_Init_SetEnabled(channelIndex, enabled) ==
  /\ call' = [op |-> "Compressor_SetEnabled (compressor_init.c)",
              index |-> channelIndex, value |-> enabled]
  /\ IF channelIndex >= AUDIO_OUTPUT_CHANNELS
     THEN ret' = "-1" /\ UNCHANGED compressorInitVars
     ELSE /\ ret' = "0"
          /\ compressorParams' = [compressorParams EXCEPT ![channelIndex].enabled =
               IF enabled # 0 THEN 1 ELSE 0]
          /\ compressorCoeffState' = [compressorCoeffState EXCEPT ![channelIndex].isEnabled =
               IF enabled # 0 THEN 1 ELSE 0]
  /\ UNCHANGED <<peqConfig, peqInitVars, crossoverInitVars, crossoverSettings, callerVars, procBuffer>>
  /\ UNCHANGED notControl

\* The state Compressor_Init leaves.
Compressor_InitCoeffState ==
  Compressor_CalculateCoefficients(Compressor_InitParams, Compressor_ZeroState)

InitCompressorParams ==
  /\ compressorParams = [ch \in OutChannels |-> Compressor_InitParams]
  /\ compressorCoeffState = [ch \in OutChannels |-> Compressor_InitCoeffState]

\* ---------------------------------------------------------------------
\* Parametric equaliser configuration (peq_config.c)
\* ---------------------------------------------------------------------

\* Gains of this table are carried in tenths of a decibel: 1.5 dB is 15.
DB_TENTHS == 10

\* sizeof(peqConfig), counted in PEQ_Config_TypeDef entries
PEQ_CONFIG_SIZE == AUDIO_OUTPUT_CHANNELS * PEQ_MAX_BANDS_PER_CHANNEL

\* The first band of each output as PEQ_Config_Init sets it.
PEQ_Config_FirstBand(channel) ==
  CASE channel = 0 ->
         [enabled |-> 1, type |-> PEQ_TYPE_HIGH_SHELF, frequency |-> 5000,
          gain |-> 2 * DB_TENTHS, q |-> 7, dirty |-> 1]
    [] channel = 1 ->
         [enabled |-> 1, type |-> PEQ_TYPE_BELL, frequency |-> 2500,
          gain |-> 15, q |-> Q_TENTHS, dirty |-> 1]
    [] channel = 2 ->
         [enabled |-> 1, type |-> PEQ_TYPE_BELL, frequency |-> 250,
          gain |-> DB_TENTHS, q |-> 12, dirty |-> 1]
    [] OTHER ->
         [enabled |-> 1, type |-> PEQ_TYPE_LOW_SHELF, frequency |-> 100,
          gain |-> 3 * DB_TENTHS, q |-> 7, dirty |-> 1]

\* void PEQ_Config_Init(void): the table it leaves
PEQ_Config_Init ==
  [channel \in OutChannels |-> [band \in Bands |->
     IF band = 0 THEN PEQ_Config_FirstBand(channel)
     ELSE [enabled |-> 0, type |-> PEQ_TYPE_BELL, frequency |-> 1000,
           gain |-> 0, q |-> 7, dirty |-> 1]]]

\* static uint8_t PEQ_ValidateChannelIndex(channel), PEQ_ValidateBandIndex(band)
PEQ_ValidateChannelIndex(channel) == channel < AUDIO_OUTPUT_CHANNELS
PEQ_ValidateBandIndex(band) == band < PEQ_MAX_BANDS_PER_CHANNEL

\* What every call on this table leaves alone.
PEQ_Config_Frame ==
  /\ UNCHANGED <<compressorInitVars, peqInitVars, crossoverInitVars, crossoverSettings, callerVars, procBuffer>>
  /\ UNCHANGED notControl

\* HAL_StatusTypeDef PEQ_Config_SetBand(channel, band, config): memcpy of the
\* caller's structure, then dirty = 1
PEQ_Config_SetBand(channel, band, config) ==
  /\ call' = [op |-> "PEQ_Config_SetBand", index |-> <<channel, band>>, value |-> config]
  /\ IF ~PEQ_ValidateChannelIndex(channel) \/ ~PEQ_ValidateBandIndex(band) \/ config.null
     THEN ret' = HAL_ERROR /\ UNCHANGED peqConfig
     ELSE /\ ret' = HAL_OK
          /\ peqConfig' = [peqConfig EXCEPT ![channel][band] =
                             [config.v EXCEPT !.dirty = 1]]
  /\ PEQ_Config_Frame

\* HAL_StatusTypeDef PEQ_Config_SetBandFrequency(channel, band, frequency)
PEQ_Config_SetBandFrequency(channel, band, frequency) ==
  /\ call' = [op |-> "PEQ_Config_SetBandFrequency", index |-> <<channel, band>>,
              value |-> frequency]
  /\ IF ~PEQ_ValidateChannelIndex(channel) \/ ~PEQ_ValidateBandIndex(band)
        \/ frequency < PEQ_MIN_FREQ \/ frequency > PEQ_MAX_FREQ
     THEN ret' = HAL_ERROR /\ UNCHANGED peqConfig
     ELSE /\ ret' = HAL_OK
          /\ peqConfig' = [peqConfig EXCEPT ![channel][band] =
               [@ EXCEPT !.frequency = CLAMP(frequency, PEQ_MIN_FREQ, PEQ_MAX_FREQ),
                         !.dirty = 1]]
  /\ PEQ_Config_Frame

\* HAL_StatusTypeDef PEQ_Config_SetBandGain(channel, band, gain)
PEQ_Config_SetBandGain(channel, band, gain) ==
  /\ call' = [op |-> "PEQ_Config_SetBandGain", index |-> <<channel, band>>,
              value |-> gain]
  /\ IF ~PEQ_ValidateChannelIndex(channel) \/ ~PEQ_ValidateBandIndex(band)
     THEN ret' = HAL_ERROR /\ UNCHANGED peqConfig
     ELSE /\ ret' = HAL_OK
          /\ peqConfig' = [peqConfig EXCEPT ![channel][band] =
               [@ EXCEPT !.gain = CLAMP(gain, PEQ_MIN_GAIN * DB_TENTHS,
                                        PEQ_MAX_GAIN * DB_TENTHS),
                         !.dirty = 1]]
  /\ PEQ_Config_Frame

\* HAL_StatusTypeDef PEQ_Config_SetBandQ(channel, band, q)
PEQ_Config_SetBandQ(channel, band, q) ==
  /\ call' = [op |-> "PEQ_Config_SetBandQ", index |-> <<channel, band>>, value |-> q]
  /\ IF ~PEQ_ValidateChannelIndex(channel) \/ ~PEQ_ValidateBandIndex(band)
        \/ q < PEQ_MIN_Q_TENTHS \/ q > PEQ_MAX_Q_TENTHS
     THEN ret' = HAL_ERROR /\ UNCHANGED peqConfig
     ELSE /\ ret' = HAL_OK
          /\ peqConfig' = [peqConfig EXCEPT ![channel][band] =
               [@ EXCEPT !.q = CLAMP(q, PEQ_MIN_Q_TENTHS, PEQ_MAX_Q_TENTHS),
                         !.dirty = 1]]
  /\ PEQ_Config_Frame

\* HAL_StatusTypeDef PEQ_Config_SetFromPreset(config, size): memcpy of the
\* whole table, then every band dirty
PEQ_Config_SetFromPreset(config, size) ==
  /\ call' = [op |-> "PEQ_Config_SetFromPreset", index |-> 0,
              value |-> [config |-> config, size |-> size]]
  /\ IF config.null \/ size # PEQ_CONFIG_SIZE
     THEN ret' = HAL_ERROR /\ UNCHANGED peqConfig
     ELSE /\ ret' = HAL_OK
          /\ peqConfig' = [channel \in OutChannels |-> [band \in Bands |->
                             [config.v[channel][band] EXCEPT !.dirty = 1]]]
  /\ PEQ_Config_Frame

InitPeqConfig == peqConfig = PEQ_Config_Init

\* ---------------------------------------------------------------------
\* Parametric equaliser instances (peq_init.c)
\* ---------------------------------------------------------------------

DSP_OK == "DSP_OK"
DSP_ERROR == "DSP_ERROR"

\* static void PEQ_SetDefaultParams(channel, band): the configuration of a
\* band after PEQ_Init (Q in tenths)
PEQ_SetDefaultParams(band) ==
  CASE band = 0 -> [type |-> PEQ_TYPE_LOW_SHELF, frequency |-> 80, gain |-> 0,
                    q |-> 7, enabled |-> 1]
    [] band = 1 -> [type |-> PEQ_TYPE_BELL, frequency |-> 250, gain |-> 0,
                    q |-> 10, enabled |-> 1]
    [] band = 3 -> [type |-> PEQ_TYPE_BELL, frequency |-> 3500, gain |-> 0,
                    q |-> 10, enabled |-> 1]
    [] band = 4 -> [type |-> PEQ_TYPE_HIGH_SHELF, frequency |-> 10000, gain |-> 0,
                    q |-> 7, enabled |-> 1]
    [] OTHER -> [type |-> PEQ_TYPE_BELL, frequency |-> 1000, gain |-> 0,
                 q |-> 10, enabled |-> 1]

\* static void PEQ_ValidateParams(instance): frequency, Q and gain clamped, a
\* type that is none of the five replaced by the bell
PEQ_ValidateParams(instance) ==
  [instance EXCEPT
     !.config.frequency = CLAMP(@, PEQ_MIN_FREQ, PEQ_MAX_FREQ),
     !.config.q = CLAMP(@, PEQ_MIN_Q_TENTHS, PEQ_MAX_Q_TENTHS),
     !.config.gain = CLAMP(@, PEQ_MIN_GAIN, PEQ_MAX_GAIN),
     !.config.type = IF @ \in {PEQ_TYPE_BELL, PEQ_TYPE_LOW_SHELF, PEQ_TYPE_HIGH_SHELF,
                               PEQ_TYPE_LOW_PASS, PEQ_TYPE_HIGH_PASS}
                     THEN @ ELSE PEQ_TYPE_BELL]

\* static void PEQ_CalculateCoefficients(instance) of peq_init.c: the five
\* coefficients of the band's type, normalised by a0 (the formulas are those
\* of peq_filter.c), or the unity bypass when the band is disabled.  Only
\* instance->coef is written.
PEQ_CalculateCoefficients(instance) ==
  LET fs == AUDIO_SAMPLE_RATE
      c == instance.config
  IN [instance EXCEPT !.coef =
        IF c.enabled = 0 THEN [b0 |-> ONE, b1 |-> 0, b2 |-> 0, a1 |-> 0, a2 |-> 0]
        ELSE CASE c.type = PEQ_TYPE_LOW_SHELF ->
                    PEQ_CalculateLowShelf(c.frequency, c.gain, c.q, fs)
               [] c.type = PEQ_TYPE_HIGH_SHELF ->
                    PEQ_CalculateHighShelf(c.frequency, c.gain, c.q, fs)
               [] c.type = PEQ_TYPE_LOW_PASS -> PEQ_CalculateLowPass(c.frequency, c.q, fs)
               [] c.type = PEQ_TYPE_HIGH_PASS -> PEQ_CalculateHighPass(c.frequency, c.q, fs)
               [] OTHER -> PEQ_CalculateBell(c.frequency, c.gain, c.q, fs)]

\* The history of a band that has processed no sample.
PEQ_StateZero == [x1 |-> 0, x2 |-> 0, y1 |-> 0, y2 |-> 0]

\* DSP_StatusTypeDef PEQ_Init(void) of peq_init.c: what it leaves in a band
PEQ_InitInstance(band) ==
  PEQ_CalculateCoefficients(
    [config |-> PEQ_SetDefaultParams(band),
     coef |-> [b0 |-> 0, b1 |-> 0, b2 |-> 0, a1 |-> 0, a2 |-> 0],
     state |-> PEQ_StateZero])

\* DSP_StatusTypeDef PEQ_ConfigureBand(channel, band, config) of peq_init.c
PEQ_ConfigureInstance(channel, band, config) ==
  /\ call' = [op |-> "PEQ_ConfigureBand (peq_init.c)", index |-> <<channel, band>>,
              value |-> config]
  /\ IF peqInitialized = 0
     THEN ret' = DSP_ERROR /\ UNCHANGED peqInstances
     ELSE IF channel >= AUDIO_OUTPUT_CHANNELS \/ band >= PEQ_MAX_BANDS_PER_CHANNEL
             \/ config.null
     THEN ret' = DSP_ERROR /\ UNCHANGED peqInstances
     ELSE /\ ret' = DSP_OK
          /\ peqInstances' = [peqInstances EXCEPT ![channel][band] =
               PEQ_CalculateCoefficients(
                 PEQ_ValidateParams([@ EXCEPT !.config = config.v]))]
  /\ UNCHANGED <<peqInitialized, crossoverInitVars, crossoverSettings, compressorInitVars, peqConfig, callerVars, procBuffer>>
  /\ UNCHANGED notControl

\* DSP_StatusTypeDef PEQ_ResetBand(channel, band) of peq_init.c
PEQ_ResetBand(channel, band) ==
  /\ call' = [op |-> "PEQ_ResetBand", index |-> <<channel, band>>, value |-> 0]
  /\ IF peqInitialized = 0 \/ channel >= AUDIO_OUTPUT_CHANNELS
        \/ band >= PEQ_MAX_BANDS_PER_CHANNEL
     THEN ret' = DSP_ERROR /\ UNCHANGED peqInstances
     ELSE /\ ret' = DSP_OK
          /\ peqInstances' = [peqInstances EXCEPT ![channel][band].state = PEQ_StateZero]
  /\ UNCHANGED <<peqInitialized, crossoverInitVars, crossoverSettings, compressorInitVars, peqConfig, callerVars, procBuffer>>
  /\ UNCHANGED notControl

\* One sample through the biquad of an instance the caller got from
\* PEQ_GetInstance(channel, band): the section of the filter library on the
\* instance's coefficients and history.  The sample returned is left in
\* procBuffer.
PEQ_ProcessInstance(channel, band, input) ==
  LET inst == peqInstances[channel][band]
      r == Biquad_ProcessSample(
             [b0 |-> inst.coef.b0, b1 |-> inst.coef.b1, b2 |-> inst.coef.b2,
              a1 |-> inst.coef.a1, a2 |-> inst.coef.a2,
              x1 |-> inst.state.x1, x2 |-> inst.state.x2,
              y1 |-> inst.state.y1, y2 |-> inst.state.y2], input)
  IN /\ call' = [op |-> "PEQ_GetInstance", index |-> <<channel, band>>,
                 value |-> [buf |-> Ptr(<<input>>), size |-> 1]]
     /\ ret' = VOID
     /\ procBuffer' = Ptr(<<r.output>>)
     /\ peqInstances' = [peqInstances EXCEPT ![channel][band].state =
          [x1 |-> r.state.x1, x2 |-> r.state.x2, y1 |-> r.state.y1, y2 |-> r.state.y2]]
     /\ UNCHANGED <<peqInitialized, crossoverInitVars, crossoverSettings, compressorInitVars, peqConfig, callerVars>>
     /\ UNCHANGED notControl

InitPeqInstances ==
  /\ peqInstances = [ch \in OutChannels |-> [b \in Bands |-> PEQ_InitInstance(b)]]
  /\ peqInitialized = 1

\* ---------------------------------------------------------------------
\* Crossover module (crossover_init.c)
\* ---------------------------------------------------------------------

\* A filter of a CrossoverFilter_TypeDef without memory, and an element of
\* crossoverFilters in zero-initialised static memory.
Crossover_NoMemory == [sections |-> 0, coef |-> NULL, state |-> NULL]

Crossover_ZeroFilter ==
  [isEnabled |-> 0, type |-> CROSSOVER_TYPE_BUTTERWORTH, order |-> 0, frequency |-> 0,
   sampleRate |-> 0, filterMode |-> CROSSOVER_MODE_LOWPASS,
   highpass |-> Crossover_NoMemory, lowpass |-> Crossover_NoMemory]

\* What the malloc calls of a channel return: NULL when one of them fails, or
\* memory holding whatever the heap held, every word of it the value v.
HeapOutcomes == {NULL, Ptr(0), Ptr(ONE)}

\* static void Crossover_FreeFilterMemory(channel)
Crossover_FreeFilterMemory(filter) ==
  [filter EXCEPT !.highpass = Crossover_NoMemory, !.lowpass = Crossover_NoMemory]

\* static void Crossover_AllocateFilterMemory(channel), heap being what its
\* malloc calls return
Crossover_AllocateFilterMemory(filter, heap) ==
  LET sections == (filter.order + 1) \div 2
      memory == [sections |-> sections,
                 coef |-> Ptr([i \in 1 .. sections |-> [k \in 1 .. 5 |-> heap.v]]),
                 state |-> Ptr([i \in 1 .. sections |->
                            [x1 |-> heap.v, x2 |-> heap.v, y1 |-> heap.v, y2 |-> heap.v]])]
  IN IF heap.null THEN Crossover_FreeFilterMemory(filter)
     ELSE [filter EXCEPT !.highpass = memory, !.lowpass = memory]

\* void Crossover_Reset(channel), on the element of a valid channel
Crossover_Reset(filter) ==
  LET Cleared(chain) ==
        IF chain.state.null THEN chain
        ELSE [chain EXCEPT !.state = Ptr([i \in 1 .. chain.sections |->
                                            [x1 |-> 0, x2 |-> 0, y1 |-> 0, y2 |-> 0]])]
  IN [filter EXCEPT !.highpass = Cleared(@), !.lowpass = Cleared(@)]

\* static CrossoverCoefficients_TypeDef* Crossover_CalculateCoefficients(type,
\* order, frequency, sampleRate): NULL when a malloc fails or the type is not
\* supported, otherwise the low-pass and high-pass sections that
\* Butterworth_Calculate, LinkwitzRiley_Calculate or Bessel_Calculate fill
\* for the frequency kept below the Nyquist frequency.
Crossover_CalculateCoefficients(type, order, frequency, sampleRate, allocated) ==
  LET sections == (order + 1) \div 2
      freq == IF 2 * frequency >= sampleRate THEN (999 * sampleRate) \div 2000
              ELSE frequency
  IN IF ~allocated \/ type \notin CrossoverTypes THEN NULL
     ELSE Ptr([highpass |-> [i \in 1 .. sections |->
                 BiquadCoefficients(Biquad_CalculateCoefficients(Biquad_Zero,
                   Crossover_HighPass(type, i - 1, sections, freq, sampleRate)))],
               lowpass |-> [i \in 1 .. sections |->
                 BiquadCoefficients(Biquad_CalculateCoefficients(Biquad_Zero,
                   Crossover_LowPass(type, i - 1, sections, freq, sampleRate)))]])

\* The body of uint8_t Crossover_UpdateCoefficients(channel) with
\* isInitialized = initialized: the array after the call and the value
\* returned.
Crossover_UpdatedCoefficients(filters, initialized, channel, allocated) ==
  IF channel >= AUDIO_OUTPUT_CHANNELS \/ initialized = 0
  THEN [filters |-> filters, ret |-> "1"]
  ELSE LET filter == filters[channel]
           coeffs == Crossover_CalculateCoefficients(filter.type, filter.order,
                       filter.frequency, filter.sampleRate, allocated)
           Copied(chain, new) ==
             IF filter.highpass.sections = 0 THEN chain
             ELSE [chain EXCEPT !.coef = Ptr([i \in 1 .. Len(chain.coef.v) |->
                     IF i <= filter.highpass.sections THEN new[i] ELSE chain.coef.v[i]])]
       IN IF coeffs.null THEN [filters |-> filters, ret |-> "2"]
          ELSE [filters |-> [filters EXCEPT ![channel] =
                   [filter EXCEPT !.highpass = Copied(@, coeffs.v.highpass),
                                  !.lowpass = Copied(@, coeffs.v.lowpass)]],
                ret |-> "0"]

\* The loop "for each channel: Crossover_UpdateCoefficients(channel)" of
\* Crossover_Init; the values returned are not looked at.
RECURSIVE Crossover_UpdateAll(_, _, _)
Crossover_UpdateAll(filters, initialized, channel) ==
  IF channel >= AUDIO_OUTPUT_CHANNELS THEN filters
  ELSE Crossover_UpdateAll(
         Crossover_UpdatedCoefficients(filters, initialized, channel, TRUE).filters,
         initialized, channel + 1)

\* The filter modes Crossover_Init sets for the standard configuration.
Crossover_StandardMode(channel) ==
  CASE channel = 2 -> CROSSOVER_MODE_BANDPASS
    [] channel = 3 -> CROSSOVER_MODE_LOWPASS
    [] OTHER -> CROSSOVER_MODE_HIGHPASS

\* The settings Crossover_Init stores in the element of a channel.
Crossover_InitSettings(filter, channel, sampleRate) ==
  [filter EXCEPT !.isEnabled = 1, !.type = CROSSOVER_TYPE_LINKWITZ_RILEY, !.order = 4,
                 !.frequency = 80, !.sampleRate = sampleRate,
                 !.filterMode = CROSSOVER_MODE_HIGHPASS]

CrossoverInitFrame ==
  /\ UNCHANGED <<compressorInitVars, peqConfig, peqInitVars, crossoverSettings, callerVars, procBuffer>>
  /\ UNCHANGED notControl

\* uint8_t Crossover_Init(sampleRate); heap[channel] is what the malloc calls
\* for the channel return.  isInitialized is 0 while the loop over
\* Crossover_UpdateCoefficients runs: it is set after the loop, and a module
\* that was initialised has been through Crossover_DeInit.
Crossover_Init(sampleRate, heap) ==
  LET freed == IF crossoverIsInitialized # 0
               THEN [ch \in OutChannels |-> Crossover_FreeFilterMemory(crossoverFilters[ch])]
               ELSE crossoverFilters
      reset == [ch \in OutChannels |->
                  Crossover_Reset(Crossover_AllocateFilterMemory(
                    Crossover_InitSettings(freed[ch], ch, sampleRate), heap[ch]))]
      standard == [ch \in OutChannels |->
                     [reset[ch] EXCEPT !.filterMode = Crossover_StandardMode(ch)]]
  IN /\ call' = [op |-> "Crossover_Init", index |-> 0, value |-> sampleRate]
     /\ crossoverFilters' = Crossover_UpdateAll(standard, 0, 0)
     /\ crossoverIsInitialized' = 1
     /\ ret' = "0"
     /\ CrossoverInitFrame

\* void Crossover_DeInit(void)
Crossover_DeInit ==
  /\ call' = [op |-> "Crossover_DeInit", index |-> 0, value |-> 0]
  /\ ret' = VOID
  /\ IF crossoverIsInitialized = 0 THEN UNCHANGED crossoverInitVars
     ELSE /\ crossoverFilters' =
               [ch \in OutChannels |-> Crossover_FreeFilterMemory(crossoverFilters[ch])]
          /\ crossoverIsInitialized' = 0
  /\ CrossoverInitFrame

\* uint8_t Crossover_UpdateCoefficients(channel), called on its own;
\* allocated tells whether the malloc calls of Crossover_CalculateCoefficients
\* succeed.
Crossover_UpdateCoefficients(channel, allocated) ==
  /\ call' = [op |-> "Crossover_UpdateCoefficients", index |-> channel, value |-> 0]
  /\ \E r \in {Crossover_UpdatedCoefficients(crossoverFilters, crossoverIsInitialized,
                                             channel, allocated)} :
        crossoverFilters' = r.filters /\ ret' = r.ret
  /\ UNCHANGED crossoverIsInitialized
  /\ CrossoverInitFrame

\* Before the first Crossover_Init: the static memory as the start-up code
\* leaves it.
InitCrossoverModule ==
  /\ crossoverFilters = [ch \in OutChannels |-> Crossover_ZeroFilter]
  /\ crossoverIsInitialized = 0

\* ---------------------------------------------------------------------
\* Crossover configuration (crossover_config.c)
\* ---------------------------------------------------------------------

\* The entry of a channel in crossoverConfig: the two cutoffs in Hz and the
\* band-pass flag.  isEnabled, filterType and filterOrder are left out: no
\* function compares them with a cutoff.
CrossoverSetting(hp, lp, bp) ==
  [highPassFreq |-> hp, lowPassFreq |-> lp, bandPassEnabled |-> bp]

\* static const defaultCrossoverConfig[AUDIO_OUTPUT_CHANNELS]
defaultCrossoverConfig ==
  [ch \in OutChannels |->
     IF ch < 2 THEN CrossoverSetting(80, 20000, 0) ELSE CrossoverSetting(20, 80, 0)]

\* const presetConfigs[5][AUDIO_OUTPUT_CHANNELS] of Crossover_Config_ApplyPreset,
\* here indexed from 1
presetConfigs ==
  << defaultCrossoverConfig,
     [ch \in OutChannels |->
        IF ch < 2 THEN CrossoverSetting(2500, 20000, 0) ELSE CrossoverSetting(250, 2500, 1)],
     defaultCrossoverConfig,
     [ch \in OutChannels |->
        IF ch < 2 THEN CrossoverSetting(1200, 20000, 0) ELSE CrossoverSetting(40, 1200, 0)],
     [ch \in OutChannels |->
        CASE ch = 0 -> CrossoverSetting(3000, 20000, 0)
          [] ch = 1 -> CrossoverSetting(500, 3000, 1)
          [] ch = 2 -> CrossoverSetting(80, 500, 1)
          [] OTHER -> CrossoverSetting(20, 80, 0)] >>

\* static float Crossover_ClampFrequency(freq)
Crossover_ClampFrequency(freq) ==
  IF freq < MIN_CROSSOVER_FREQ THEN MIN_CROSSOVER_FREQ
  ELSE IF freq > MAX_CROSSOVER_FREQ THEN MAX_CROSSOVER_FREQ
  ELSE freq

\* static uint8_t Crossover_ValidateConfig(config), the checks of the cutoffs
Crossover_ValidateConfig(config) ==
  IF config.null THEN 0
  ELSE IF \/ config.v.highPassFreq < MIN_CROSSOVER_FREQ
          \/ config.v.highPassFreq > MAX_CROSSOVER_FREQ
          \/ config.v.lowPassFreq < MIN_CROSSOVER_FREQ
          \/ config.v.lowPassFreq > MAX_CROSSOVER_FREQ THEN 0
  ELSE IF config.v.bandPassEnabled # 0
          /\ config.v.highPassFreq >= config.v.lowPassFreq THEN 0
  ELSE 1

CrossoverConfigFrame ==
  /\ UNCHANGED <<compressorInitVars, peqConfig, peqInitVars, crossoverInitVars, callerVars, procBuffer>>
  /\ UNCHANGED notControl

\* void Crossover_Config_Init(void); eeprom is what EEPROM_ReadData delivers,
\* NULL when the read fails.  An entry that is not valid is replaced by the
\* default of its channel.
Crossover_Config_Init(eeprom) ==
  /\ call' = [op |-> "Crossover_Config_Init", index |-> 0, value |-> eeprom]
  /\ ret' = VOID
  /\ crossoverSettings' =
       [ch \in OutChannels |->
          IF eeprom.null THEN defaultCrossoverConfig[ch]
          ELSE IF Crossover_ValidateConfig(Ptr(eeprom.v[ch])) = 0
          THEN defaultCrossoverConfig[ch]
          ELSE eeprom.v[ch]]
  /\ CrossoverConfigFrame

\* HAL_StatusTypeDef Crossover_Config_Set(channel, config)
Crossover_Config_Set(channel, config) ==
  /\ call' = [op |-> "Crossover_Config_Set", index |-> channel, value |-> config]
  /\ IF channel >= AUDIO_OUTPUT_CHANNELS \/ config.null
     THEN ret' = HAL_ERROR /\ UNCHANGED crossoverSettings
     ELSE IF Crossover_ValidateConfig(config) = 0
     THEN ret' = HAL_ERROR /\ UNCHANGED crossoverSettings
     ELSE /\ ret' = HAL_OK
          /\ crossoverSettings' = [crossoverSettings EXCEPT ![channel] = config.v]
  /\ CrossoverConfigFrame

\* HAL_StatusTypeDef Crossover_Config_SetHighPassFreq(channel, freq)
Crossover_Config_SetHighPassFreq(channel, freq) ==
  /\ call' = [op |-> "Crossover_Config_SetHighPassFreq", index |-> channel, value |-> freq]
  /\ IF channel >= AUDIO_OUTPUT_CHANNELS
     THEN ret' = HAL_ERROR /\ UNCHANGED crossoverSettings
     ELSE IF crossoverSettings[channel].bandPassEnabled # 0
             /\ Crossover_ClampFrequency(freq) >= crossoverSettings[channel].lowPassFreq
     THEN ret' = HAL_ERROR /\ UNCHANGED crossoverSettings
     ELSE /\ ret' = HAL_OK
          /\ crossoverSettings' =
               [crossoverSettings EXCEPT ![channel].highPassFreq = Crossover_ClampFrequency(freq)]
  /\ CrossoverConfigFrame

\* HAL_StatusTypeDef Crossover_Config_SetLowPassFreq(channel, freq)
Crossover_Config_SetLowPassFreq(channel, freq) ==
  /\ call' = [op |-> "Crossover_Config_SetLowPassFreq", index |-> channel, value |-> freq]
  /\ IF channel >= AUDIO_OUTPUT_CHANNELS
     THEN ret' = HAL_ERROR /\ UNCHANGED crossoverSettings
     ELSE IF crossoverSettings[channel].bandPassEnabled # 0
             /\ Crossover_ClampFrequency(freq) <= crossoverSettings[channel].highPassFreq
     THEN ret' = HAL_ERROR /\ UNCHANGED crossoverSettings
     ELSE /\ ret' = HAL_OK
          /\ crossoverSettings' =
               [crossoverSettings EXCEPT ![channel].lowPassFreq = Crossover_ClampFrequency(freq)]
  /\ CrossoverConfigFrame

\* HAL_StatusTypeDef Crossover_Config_SetBandPassMode(channel, enable)
Crossover_Config_SetBandPassMode(channel, enable) ==
  /\ call' = [op |-> "Crossover_Config_SetBandPassMode", index |-> channel, value |-> enable]
  /\ IF channel >= AUDIO_OUTPUT_CHANNELS
     THEN ret' = HAL_ERROR /\ UNCHANGED crossoverSettings
     ELSE IF enable # 0
             /\ crossoverSettings[channel].highPassFreq >= crossoverSettings[channel].lowPassFreq
     THEN ret' = HAL_ERROR /\ UNCHANGED crossoverSettings
     ELSE /\ ret' = HAL_OK
          /\ crossoverSettings' =
               [crossoverSettings EXCEPT ![channel].bandPassEnabled =
                  IF enable # 0 THEN 1 ELSE 0]
  /\ CrossoverConfigFrame

\* HAL_StatusTypeDef Crossover_Config_ResetToDefault(channel)
Crossover_Config_ResetToDefault(channel) ==
  /\ call' = [op |-> "Crossover_Config_ResetToDefault", index |-> channel, value |-> 0]
  /\ IF channel >= AUDIO_OUTPUT_CHANNELS
     THEN ret' = HAL_ERROR /\ UNCHANGED crossoverSettings
     ELSE /\ ret' = HAL_OK
          /\ crossoverSettings' =
               [crossoverSettings EXCEPT ![channel] = defaultCrossoverConfig[channel]]
  /\ CrossoverConfigFrame

\* HAL_StatusTypeDef Crossover_Config_ApplyPreset(preset)
Crossover_Config_ApplyPreset(preset) ==
  /\ call' = [op |-> "Crossover_Config_ApplyPreset", index |-> 0, value |-> preset]
  /\ IF preset >= Len(presetConfigs)
     THEN ret' = HAL_ERROR /\ UNCHANGED crossoverSettings
     ELSE /\ ret' = HAL_OK
          /\ crossoverSettings' = presetConfigs[preset + 1]
  /\ CrossoverConfigFrame

\* After Crossover_Config_Init with no stored configuration: the defaults.
InitCrossoverConfig ==
  crossoverSettings = defaultCrossoverConfig

\* ---------------------------------------------------------------------
\* A caller of the filter library (biquad.c)
\* ---------------------------------------------------------------------

\* The designs a caller asks Biquad_Init for: a peaking, a low-pass and a
\* low-shelf section, and the same low-pass with Q = 0.
BiquadCallConfigs ==
  { [type |-> BIQUAD_TYPE_PEAK, frequency |-> 12000, Q |-> 7, gainDB |-> 6,
     sampleRate |-> AUDIO_SAMPLE_RATE],
    [type |-> BIQUAD_TYPE_LPF, frequency |-> 12000, Q |-> 7, gainDB |-> 0,
     sampleRate |-> AUDIO_SAMPLE_RATE],
    [type |-> BIQUAD_TYPE_LOWSHELF, frequency |-> 6000, Q |-> 7, gainDB |-> -6,
     sampleRate |-> AUDIO_SAMPLE_RATE],
    [type |-> BIQUAD_TYPE_LPF, frequency |-> 12000, Q |-> 0, gainDB |-> 0,
     sampleRate |-> AUDIO_SAMPLE_RATE],
    [type |-> BIQUAD_TYPE_LPF, frequency |-> 0, Q |-> 7, gainDB |-> 0,
     sampleRate |-> AUDIO_SAMPLE_RATE],
    [type |-> BIQUAD_TYPE_LPF, frequency |-> 12000, Q |-> 7, gainDB |-> 0,
     sampleRate |-> 0] }

\* A call of Biquad_Init(state, config) on the caller's filter
Biquad_InitCall(config) ==
  /\ call' = [op |-> "Biquad_Init", index |-> 0, value |-> config]
  /\ ret' = VOID
  /\ filterState' = Biquad_Init(filterState, config)
  /\ UNCHANGED <<compConfig, compState, compressorInitVars, peqConfig, peqInitVars, crossoverInitVars, crossoverSettings, procBuffer>>
  /\ UNCHANGED notControl

\* A call of Biquad_ProcessSample(state, input) on the caller's filter; the
\* sample returned is left in procBuffer
Biquad_ProcessSampleCall(input) ==
  /\ call' = [op |-> "Biquad_ProcessSample", index |-> 0,
              value |-> [buf |-> Ptr(<<input>>), size |-> 1]]
  /\ ret' = VOID
  /\ filterState' = Biquad_ProcessSample(filterState, input).state
  /\ procBuffer' = Ptr(<<Biquad_ProcessSample(filterState, input).output>>)
  /\ UNCHANGED <<compConfig, compState, compressorInitVars, peqConfig, peqInitVars, crossoverInitVars, crossoverSettings>>
  /\ UNCHANGED notControl

\* ---------------------------------------------------------------------
\* Compressor configuration (compressor_config.c)
\* ---------------------------------------------------------------------

\* void Compressor_InitConfig(config): threshold -20 dB, ratio 4:1, knee
\* 10 dB, attack 20 ms, release 200 ms, no makeup gain, disabled
Compressor_InitConfig ==
  [enabled |-> 0, threshold |-> -20, ratio |-> 4 * RATIO_TENTHS, kneeWidth |-> 10,
   attackTime |-> 200, releaseTime |-> 2000, makeupGain |-> 0]

\* A CompressorState_TypeDef in zero-initialised memory.
CompressorConfigState_Zero ==
  [enabled |-> 0, threshold |-> 0, ratio |-> 0, kneeWidth |-> 0, makeupGain |-> 0,
   attackCoeff |-> 0, releaseCoeff |-> 0, thresholdLinear |-> 0,
   makeupGainLinear |-> 0, kneeStartDb |-> 0, kneeEndDb |-> 0,
   kneeStartLinear |-> 0, kneeEndLinear |-> 0, inverseKneeWidth |-> 0,
   kneeSlope |-> 0, logRatio |-> 0]

\* MathUtils_DB2Linear(db): 10^(db / 20)
MathUtils_DB2Linear(db) == Exp2(db, 6)

\* MathUtils_Exp(-1000 / (time_ms * sampleRate)) for a time in tenths of a
\* millisecond: n / (n + 1) with n the time in samples
MathUtils_ExpCoeff(time, sampleRate) ==
  RoundDiv(ONE * sampleRate * time, sampleRate * time + 10000)

\* static float ComputeLogRatio(ratio)
ComputeLogRatio(ratio) ==
  IF ratio <= RATIO_TENTHS THEN 0 ELSE ONE - RoundDiv(ONE * RATIO_TENTHS, ratio)

\* void Compressor_ApplyConfig(config, state, sampleRate): the state it writes
Compressor_ApplyConfigTo(config, state, sampleRate) ==
  [state EXCEPT
     !.enabled = config.enabled,
     !.threshold = config.threshold,
     !.ratio = config.ratio,
     !.kneeWidth = config.kneeWidth,
     !.makeupGain = config.makeupGain,
     !.attackCoeff = IF sampleRate > 0
                     THEN MathUtils_ExpCoeff(config.attackTime, sampleRate)
                     ELSE RoundDiv(9 * ONE, 10),
     !.releaseCoeff = IF sampleRate > 0
                      THEN MathUtils_ExpCoeff(config.releaseTime, sampleRate)
                      ELSE RoundDiv(995 * ONE, 1000),
     !.thresholdLinear = MathUtils_DB2Linear(config.threshold),
     !.makeupGainLinear = MathUtils_DB2Linear(config.makeupGain),
     !.kneeStartDb = config.threshold - RoundDiv(config.kneeWidth, 2),
     !.kneeEndDb = config.threshold + RoundDiv(config.kneeWidth, 2),
     !.kneeStartLinear = MathUtils_DB2Linear(config.threshold - RoundDiv(config.kneeWidth, 2)),
     !.kneeEndLinear = MathUtils_DB2Linear(config.threshold + RoundDiv(config.kneeWidth, 2)),
     !.inverseKneeWidth = XDiv(ONE, config.kneeWidth),
     !.kneeSlope = XDiv(XSub(ONE, XDiv(ONE * RATIO_TENTHS, config.ratio)), 2),
     !.logRatio = ComputeLogRatio(config.ratio)]

\* The call Compressor_ApplyConfig(config, state, sampleRate); a pointer that
\* is not NULL is the caller's compConfig, respectively compState
Compressor_ApplyConfig(config, state, sampleRate) ==
  /\ call' = [op |-> "Compressor_ApplyConfig", index |-> 0,
              value |-> [config |-> config, state |-> state, sampleRate |-> sampleRate]]
  /\ ret' = VOID
  /\ IF config.null \/ state.null
     THEN UNCHANGED compState
     ELSE compState' = Compressor_ApplyConfigTo(compConfig, compState, sampleRate)
  /\ UNCHANGED <<compConfig, filterState, compressorInitVars, peqConfig, peqInitVars, crossoverInitVars, crossoverSettings, procBuffer>>
  /\ UNCHANGED notControl

\* int Compressor_SetKneeWidth(config, kneeWidthDb), compressor_config.c
Compressor_SetKneeWidth(config, kneeWidthDb) ==
  /\ call' = [op |-> "Compressor_SetKneeWidth", index |-> 0,
              value |-> [config |-> config, kneeWidthDb |-> kneeWidthDb]]
  /\ IF config.null
     THEN ret' = "-1" /\ UNCHANGED compConfig
     ELSE /\ ret' = "0"
          /\ compConfig' = [compConfig EXCEPT !.kneeWidth =
               IF kneeWidthDb < 0 THEN 0
               ELSE IF kneeWidthDb > 24 THEN 24 ELSE kneeWidthDb]
  /\ UNCHANGED <<compState, filterState, compressorInitVars, peqConfig, peqInitVars, crossoverInitVars, crossoverSettings, procBuffer>>
  /\ UNCHANGED notControl

\* int Compressor_SetEnabled(config, enable) of compressor_config.c
Compressor_Config_SetEnabled(config, enable) ==
  /\ call' = [op |-> "Compressor_SetEnabled (compressor_config.c)", index |-> 0,
              value |-> [config |-> config, enable |-> enable]]
  /\ IF config.null
     THEN ret' = "-1" /\ UNCHANGED compConfig
     ELSE /\ ret' = "0"
          /\ compConfig' = [compConfig EXCEPT !.enabled = IF enable # 0 THEN 1 ELSE 0]
  /\ UNCHANGED <<compState, filterState, compressorInitVars, peqConfig, peqInitVars, crossoverInitVars, crossoverSettings, procBuffer>>
  /\ UNCHANGED notControl

\* The caller's objects: a zeroed filter, a configuration fresh from
\* Compressor_InitConfig and a zeroed compressor state.
InitCaller ==
  /\ filterState = Biquad_Zero
  /\ compConfig = Compressor_InitConfig
  /\ compState = CompressorConfigState_Zero

\* ---------------------------------------------------------------------
\* Main loop and interrupts (main.c)
\* ---------------------------------------------------------------------

\* Samples a caller passes to a processing call.
ProcessSamples == {ONE \div 2, 2 * ONE}

\* Processing calls stop once a filter history value has grown to this size.
MaxHistory == 16

HistoryWithin(states, idx) == \A i \in idx : Abs(states[i].y1) <= MaxHistory

ChainNames == {"highpass", "lowpass", "bandpassHigh", "bandpassLow"}

\* What a filter chain contributes to the processing of a sample: its stage
\* count and, for the stages in use, the gain and the five coefficients.
CoefficientsOf(filter) ==
  [numStages |-> filter.numStages,
   gain |-> IF filter.numStages = 0 THEN 0 ELSE filter.gain,
   stages |-> [i \in Stages |->
      IF i < filter.numStages
      THEN [b0 |-> filter.stages[i].b0, b1 |-> filter.stages[i].b1,
            b2 |-> filter.stages[i].b2, a1 |-> filter.stages[i].a1,
            a2 |-> filter.stages[i].a2]
      ELSE [b0 |-> 0, b1 |-> 0, b2 |-> 0, a1 |-> 0, a2 |-> 0]]]

\* The parameter and coefficient set of channel ch as a processing call reads it.
Crossover_Snapshot(ch) ==
  [channel |-> ch, cfg |-> crossoverConfig[ch],
   coefficients |-> [n \in ChainNames |-> CoefficientsOf(ChainsOf(ch)[n])]]

\* The coefficient set a completed CalculateFilterCoefficients leaves for cfg.
Crossover_CompleteCoefficients(cfg) ==
  [n \in ChainNames |->
     CoefficientsOf(CalculateFilterCoefficients(cfg,
                      [m \in ChainNames |-> FilterChain_Zero])[n])]

\* Channels, samples and cutoffs of the main loop's calls.
\* The blocks the input DMA completes in a run.
MaxBlocks == 5

LoopChannels == {0}
LoopSamples == {2 * ONE}
LoopFrequencies == {10, 100, 12000}

\* An interrupt handler that would run the crossover stage itself, on the
\* sample 1.0 of channel 0, instead of leaving it to the main loop.
Audio_ProcessCallback_Inline ==
  /\ \A n \in ChainNames : HistoryWithin(ChainsOf(0)[n].stages, Stages)
  /\ sampleUsed' = Crossover_Snapshot(0)
  /\ StoreChains(0, Crossover_Filter(crossoverConfig[0].filterMode,
                                     ChainsOf(0), ONE).chains)
  /\ UNCHANGED <<crossoverConfig, pc, audioProcessFlag, uiUpdateFlag, dmaVars>>
  /\ UNCHANGED <<audioVars, delayVars, limiterVars, peqVars, compressorVars,
                 controlVars, procBuffer, call, ret>>

\* void Audio_ProcessCallback(void), called by the I2S receive interrupts:
\* it only raises the flag, wherever the main loop is.
Audio_ProcessCallback ==
  /\ audioProcessFlag' = 1
  /\ UNCHANGED <<pc, uiUpdateFlag, sampleUsed, dmaVars>>
  /\ UNCHANGED <<audioVars, delayVars, limiterVars, dspVars, controlVars,
                 procBuffer, call, ret>>

\* void HAL_TIM_PeriodElapsedCallback(htim), the TIM6 interrupt, on a tick
\* that raises the flag
HAL_TIM_PeriodElapsedCallback ==
  /\ uiUpdateFlag' = 1
  /\ UNCHANGED <<pc, audioProcessFlag, sampleUsed, dmaVars>>
  /\ UNCHANGED <<audioVars, delayVars, limiterVars, dspVars, controlVars,
                 procBuffer, call, ret>>

\* The audio branch of the main loop: the flag is cleared and
\* Audio_Pipeline_Process runs; its crossover stage, on channel ch with the
\* routed sample x, is Crossover_ProcessSample.
MainLoop_Audio(ch, x) ==
  /\ pc = "loop"
  /\ audioProcessFlag = 1
  /\ \A n \in ChainNames : HistoryWithin(ChainsOf(ch)[n].stages, Stages)
  /\ audioProcessFlag' = 0
  /\ sampleUsed' = Crossover_Snapshot(ch)
  /\ \E r \in {Crossover_Filter(crossoverConfig[ch].filterMode, ChainsOf(ch), x)} :
        /\ procBuffer' = Ptr(<<r.output>>)
        /\ StoreChains(ch, r.chains)
  /\ UNCHANGED <<crossoverConfig, pc, uiUpdateFlag, dmaVars, call, ret>>
  /\ UNCHANGED <<audioVars, delayVars, limiterVars, peqVars, compressorVars, controlVars>>

\* The UI branch of the main loop: the flag is cleared and Menu_Update calls
\* Crossover_SetFrequency, which checks its arguments and stores the cutoff.
MainLoop_Ui(outputChannel, frequencyType, frequency) ==
  /\ pc = "loop"
  /\ uiUpdateFlag = 1
  /\ uiUpdateFlag' = 0
  /\ call' = [op |-> "Crossover_SetFrequency", index |-> outputChannel,
              value |-> [frequencyType |-> frequencyType, frequency |-> frequency]]
  /\ IF frequency < CROSSOVER_MIN_FREQ \/ frequency > CROSSOVER_MAX_FREQ
     THEN ret' = "1" /\ UNCHANGED <<crossoverConfig, pc>>
     ELSE /\ crossoverConfig' =
               [crossoverConfig EXCEPT ![outputChannel] =
                  Crossover_StoreFrequency(@, frequencyType, frequency)]
          /\ pc' = "clear"
          /\ UNCHANGED ret
  /\ UNCHANGED <<highpassFilters, lowpassFilters, bandpassHighFilters,
                 bandpassLowFilters, audioProcessFlag, sampleUsed, dmaVars,
                 procBuffer>>
  /\ UNCHANGED <<audioVars, delayVars, limiterVars, peqVars, compressorVars, controlVars>>

\* What every step of the call in progress leaves alone.
UpdateStepFrame ==
  /\ UNCHANGED <<crossoverConfig, audioProcessFlag, uiUpdateFlag, sampleUsed,
                 dmaVars, procBuffer, call>>
  /\ UNCHANGED <<audioVars, delayVars, limiterVars, peqVars, compressorVars, controlVars>>

\* CalculateFilterCoefficients, first step: the four stage counts are cleared.
CalculateFilterCoefficients_Clear ==
  /\ pc = "clear"
  /\ StoreChains(call.index,
                 [n \in ChainNames |-> [ChainsOf(call.index)[n] EXCEPT !.numStages = 0]])
  /\ pc' = "design"
  /\ UNCHANGED ret
  /\ UpdateStepFrame

\* CalculateFilterCoefficients, second step: the switch on the filter mode
\* designs the stages of the chains in use.
CalculateFilterCoefficients_Design ==
  /\ pc = "design"
  /\ StoreChains(call.index,
       DesignChains(crossoverConfig[call.index], ChainsOf(call.index),
                    GetNumStagesForOrder(crossoverConfig[call.index].order),
                    ComputeGainCompensation(crossoverConfig[call.index].type,
                                            crossoverConfig[call.index].order),
                    AUDIO_SAMPLE_RATE))
  /\ pc' = "reset"
  /\ UNCHANGED ret
  /\ UpdateStepFrame

\* CalculateFilterCoefficients, last step: Crossover_ResetFilterState; then
\* Crossover_SetFrequency returns 0 and the main loop goes on.
CalculateFilterCoefficients_Reset ==
  /\ pc = "reset"
  /\ StoreChains(call.index, ResetFilterState(ChainsOf(call.index)))
  /\ pc' = "loop"
  /\ ret' = "0"
  /\ UpdateStepFrame

\* typedef enum { BUFFER_HALF = 0, BUFFER_FULL } BufferState_TypeDef
BUFFER_HALF == 0
BUFFER_FULL == 1

\* The DMA fills the two halves of inputDmaBuffer in turn, for ever; the
\* blocks it completes are numbered 1, 2, 3, ... and a half that has not been
\* completed yet holds block 0.  The number of the block completed last:
LastBlock == MAX(inputDmaBuffer[BUFFER_HALF], inputDmaBuffer[BUFFER_FULL])

\* void HAL_I2S_RxHalfCpltCallback(hi2s) for the input peripheral: the first
\* half is complete; Audio_ProcessCallback raises the flag.
HAL_I2S_RxHalfCpltCallback ==
  /\ LastBlock % 2 = 0
  /\ LastBlock < MaxBlocks
  /\ inputDmaBuffer' = [inputDmaBuffer EXCEPT ![BUFFER_HALF] = LastBlock + 1]
  /\ inputBufferState' = BUFFER_HALF
  /\ audioProcessFlag' = 1
  /\ UNCHANGED <<pc, uiUpdateFlag, sampleUsed, processedBlocks>>
  /\ UNCHANGED <<audioVars, delayVars, limiterVars, dspVars, controlVars,
                 procBuffer, call, ret>>

\* void HAL_I2S_RxCpltCallback(hi2s): the second half is complete.
HAL_I2S_RxCpltCallback ==
  /\ LastBlock % 2 = 1
  /\ LastBlock < MaxBlocks
  /\ inputDmaBuffer' = [inputDmaBuffer EXCEPT ![BUFFER_FULL] = LastBlock + 1]
  /\ inputBufferState' = BUFFER_FULL
  /\ audioProcessFlag' = 1
  /\ UNCHANGED <<pc, uiUpdateFlag, sampleUsed, processedBlocks>>
  /\ UNCHANGED <<audioVars, delayVars, limiterVars, dspVars, controlVars,
                 procBuffer, call, ret>>

\* The audio branch of the main loop, the test and the assignment:
\* if (audioProcessFlag) { audioProcessFlag = 0; ... }
MainLoop_ClearAudioFlag ==
  /\ pc = "loop"
  /\ audioProcessFlag = 1
  /\ audioProcessFlag' = 0
  /\ pc' = "pipeline"
  /\ UNCHANGED <<uiUpdateFlag, sampleUsed, dmaVars>>
  /\ UNCHANGED <<audioVars, delayVars, limiterVars, dspVars, controlVars,
                 procBuffer, call, ret>>

\* HAL_StatusTypeDef Audio_GetInputSamples(buffer): the half of the input
\* buffer it converts, chosen by inputBufferState at the time of the call.
Audio_GetInputSamples == inputDmaBuffer[inputBufferState]

\* ... and Audio_Pipeline_Process, which starts with that call and takes
\* every sample it processes from the block the call has read.
MainLoop_Pipeline ==
  /\ pc = "pipeline"
  /\ processedBlocks' = Append(processedBlocks, Audio_GetInputSamples)
  /\ pc' = "loop"
  /\ call' = [op |-> "Audio_Pipeline_Process", index |-> 0, value |-> 0]
  /\ ret' = VOID
  /\ UNCHANGED <<audioProcessFlag, uiUpdateFlag, sampleUsed, inputBufferState,
                 inputDmaBuffer>>
  /\ UNCHANGED <<audioVars, delayVars, limiterVars, dspVars, controlVars, procBuffer>>

InitMain ==
  /\ pc = "loop"
  /\ audioProcessFlag = 0
  /\ uiUpdateFlag = 0
  /\ inputBufferState = BUFFER_HALF
  /\ inputDmaBuffer = [h \in {BUFFER_HALF, BUFFER_FULL} |-> 0]
  /\ processedBlocks = <<>>
  /\ sampleUsed = [channel |-> 0, cfg |-> Crossover_DefaultConfig,
                   coefficients |-> Crossover_CompleteCoefficients(Crossover_DefaultConfig)]

Init ==
  /\ InitAudio
  /\ InitDelay
  /\ InitLimiter
  /\ InitCrossover
  /\ InitPeq
  /\ InitCompressor
  /\ InitCompressorParams
  /\ InitPeqConfig
  /\ InitPeqInstances
  /\ InitCrossoverModule
  /\ InitCrossoverConfig
  /\ InitCaller
  /\ InitMain
  /\ procBuffer = NULL
  /\ call = [op |-> "main", index |-> 0, value |-> 0]
  /\ ret = VOID

\* Delay channel configurations a caller passes to Delay_ConfigChannel.
DelayConfigs ==
  [delayValue : {0, MaxDelaySamples}, phaseInvert : {0}, enabled : {1}]

\* The audio path: mutes, output gain, delay configuration and processing.
NextPipeline ==
  \/ \E c \in ValidCallChannels, st \in {0, 1} : AudioRouting_SetMute(c, st)
  \/ \E c \in ValidCallChannels, st \in {0, 1} : Audio_MuteOutput(c, st)
  \/ \E c \in ValidCallChannels, g \in CallGains : Audio_SetOutputGain(c, g)
  \/ \E c \in ValidCallChannels, cfg \in DelayConfigs : Delay_ConfigChannel(c, Ptr(cfg))
  \/ \E dmaIn \in [InChannels -> InputCodes] : Audio_Pipeline_Process(dmaIn)

SpecPipeline == Init /\ [][NextPipeline]_vars

\* ---------------------------------------------------------------------
\* Properties of the audio path
\* ---------------------------------------------------------------------

\* C1: after the final gain stage every sample of each of the four output
\* channels is within [-1, 1]: every 24-bit code the output stage writes to
\* the output buffer lies between -AUDIO_MAX_VALUE and AUDIO_MAX_VALUE, for
\* every input and every gain, mute and delay configuration.
C1_OutputWithinFullScale ==
  \A ch \in OutChannels :
    /\ outputDmaBuffer[ch] >= -AUDIO_MAX_VALUE
    /\ outputDmaBuffer[ch] <= AUDIO_MAX_VALUE

\* A frame was just processed with an output gain above unity and the output
\* of that channel sits at positive full scale: the hard limit has cut a
\* sample that the gain had pushed beyond 1.0.
C1_Witness ==
  /\ call.op = "Audio_Pipeline_Process"
  /\ \E ch \in OutChannels :
       /\ audioStatus.outputGain[ch] > ONE
       /\ audioStatus.outputMute[ch] = 0
       /\ outputDmaBuffer[ch] = AUDIO_MAX_VALUE

\* C3: while an output channel is muted, every output sample of that channel
\* is exactly 0, whatever the input and whatever signal history the modules
\* of its chain hold: after a processing cycle, the output code of every
\* channel muted in the routing matrix or in the driver is 0.
C3_MutedChannelIsSilent ==
  call.op = "Audio_Pipeline_Process" =>
    \A ch \in OutChannels :
      (audioRoutingConfig.outputMute[ch] = 1 \/ audioStatus.outputMute[ch] = 1)
        => outputDmaBuffer[ch] = 0

\* ---------------------------------------------------------------------
\* The limiter on its own
\* ---------------------------------------------------------------------

\* Longest sample block a caller passes to a processing operation.
MaxBlock == 1

\* Samples a caller passes to the limiter: -1.5, 0.5 and 2.0.
LimiterSamples == {-(ONE + ONE \div 2), ONE \div 2, 2 * ONE}

\* Buffers a caller passes to a processing operation: NULL or a block.
CallBuffers(S) == {NULL} \cup {Ptr(b) : b \in [1 .. MaxBlock -> S]}

\* Configurations a caller passes to Limiter_UpdateConfig: a soft-knee one with
\* times below their minimum, a hard-knee one with a lookahead above the
\* maximum, and two with a threshold outside (0, 1].
LimiterSoftConfig ==
  [ threshold |-> ONE \div 2, knee |-> ONE, attackTime |-> 0, releaseTime |-> 50,
    lookaheadTime |-> 1, enableLookahead |-> 1, enableISP |-> 1,
    adaptiveRelease |-> 1 ]

LimiterHardConfig ==
  [ threshold |-> ONE \div 2, knee |-> 0, attackTime |-> 200, releaseTime |-> 200,
    lookaheadTime |-> MaxLookahead + 1, enableLookahead |-> 1, enableISP |-> 0,
    adaptiveRelease |-> 0 ]

LimiterCallConfigs ==
  { LimiterSoftConfig, LimiterHardConfig,
    [LimiterHardConfig EXCEPT !.threshold = 0],
    [LimiterHardConfig EXCEPT !.threshold = 2 * ONE] }

\* Blocks of samples a caller passes to a processing operation.
CallBlocks(S) == {Ptr(b) : b \in [1 .. MaxBlock -> S]}

\* The limiter of a valid channel: reconfiguration and processing.
NextLimiter ==
  \/ \E c \in ValidCallChannels, b \in CallBlocks(LimiterSamples), n \in 0 .. MaxBlock :
       Limiter_ProcessBlock(c, b, n)
  \/ \E c \in ValidCallChannels, cfg \in LimiterCallConfigs :
       Limiter_UpdateConfig(c, Ptr(cfg))

SpecLimiter == Init /\ [][NextLimiter]_vars

ProcessBuffers == {NULL} \cup {Ptr(<<x>>) : x \in ProcessSamples}

\* The calls on each module.
CrossoverCalls ==
  \/ \E m \in {CROSSOVER_MODE_LOWPASS, CROSSOVER_MODE_FULLRANGE} :
        Crossover_SetFilterMode(0, m)
  \/ \E x \in ProcessSamples :
        /\ \A n \in DOMAIN ChainsOf(0) : HistoryWithin(ChainsOf(0)[n].stages, Stages)
        /\ Crossover_ProcessSample(0, x)

PeqCalls ==
  \/ \E e \in {0, 1} : PEQ_SetBandEnabled(0, 0, e)
  \/ \E b \in ProcessBuffers :
        /\ HistoryWithin(PEQBiquadStates[0], Bands)
        /\ PEQ_ProcessChannel(0, b)

CompressorCalls ==
  \/ \E e \in {0, 1} : Compressor_SetEnabled(0, e)
  \/ \E b \in ProcessBuffers : Compressor_Process(0, b)

DelayCalls ==
  \/ \E cfg \in DelayConfigs : Delay_ConfigChannel(0, Ptr(cfg))
  \/ \E e \in {0, 1} : Delay_SetEnable(0, e)
  \/ \E b \in ProcessBuffers, n \in {0, 1} : Delay_ProcessCall(0, b, n)

LimiterCalls ==
  \/ \E b \in {0, 1} : Limiter_SetBypass(0, b)
  \/ \E b \in ProcessBuffers, n \in {0, 1} : Limiter_ProcessBlock(0, b, n)

\* The modules keep separate state, so each is exercised on its own: a module
\* is called while every other module is still as initialised.
NextBypass ==
  \/ InitPeq /\ InitCompressor /\ InitDelay /\ InitLimiter /\ CrossoverCalls
  \/ InitCrossover /\ InitCompressor /\ InitDelay /\ InitLimiter /\ PeqCalls
  \/ InitCrossover /\ InitPeq /\ InitDelay /\ InitLimiter /\ CompressorCalls
  \/ InitCrossover /\ InitPeq /\ InitCompressor /\ InitLimiter /\ DelayCalls
  \/ InitCrossover /\ InitPeq /\ InitCompressor /\ InitDelay /\ LimiterCalls

SpecBypass == Init /\ [][NextBypass]_vars

\* The processing operations that work on a caller's buffer.
ProcessOps ==
  {"Crossover_ProcessSample", "PEQ_ProcessChannel", "Compressor_Process",
   "Delay_Process", "Limiter_ProcessBlock"}

\* The last processing call had a buffer and a channel the module accepts.
ValidProcessCall(op) ==
  /\ call.op = op
  /\ call.index < AUDIO_OUTPUT_CHANNELS
  /\ ~call.value.buf.null

\* The crossover in full-range mode, the equaliser with every band disabled,
\* the disabled compressor and the disabled delay return the buffer as given.
CrossoverBypassIsIdentity ==
  (ValidProcessCall("Crossover_ProcessSample")
     /\ crossoverConfig[call.index].filterMode = CROSSOVER_MODE_FULLRANGE)
  => procBuffer = call.value.buf

PeqBypassIsIdentity ==
  (ValidProcessCall("PEQ_ProcessChannel")
     /\ \A b \in Bands : PEQBands[call.index][b].enabled = 0)
  => procBuffer = call.value.buf

CompressorBypassIsIdentity ==
  (ValidProcessCall("Compressor_Process")
     /\ compressorState[call.index].params.enabled = 0)
  => procBuffer = call.value.buf

DelayBypassIsIdentity ==
  (ValidProcessCall("Delay_Process") /\ delayInstances[call.index].enabled = 0)
  => procBuffer = call.value.buf

LimiterBypassIsIdentity ==
  (ValidProcessCall("Limiter_ProcessBlock") /\ limiterBypass[call.index] = 1)
  => procBuffer = call.value.buf

\* C4: for every module (crossover, parametric EQ, compressor, limiter,
\* delay), while the module is disabled or in bypass / full-range mode the
\* samples it returns equal the samples it was given.
C4_BypassIsIdentity ==
  /\ CrossoverBypassIsIdentity
  /\ PeqBypassIsIdentity
  /\ CompressorBypassIsIdentity
  /\ DelayBypassIsIdentity
  /\ LimiterBypassIsIdentity

\* What C4 says of the four modules other than the limiter.
C4_BypassIsIdentityButLimiter ==
  /\ CrossoverBypassIsIdentity
  /\ PeqBypassIsIdentity
  /\ CompressorBypassIsIdentity
  /\ DelayBypassIsIdentity

\* Each of the five bypassed cases has been called with a sample.
C4_CrossoverCase ==
  ValidProcessCall("Crossover_ProcessSample")
    /\ crossoverConfig[call.index].filterMode = CROSSOVER_MODE_FULLRANGE
C4_PeqCase ==
  ValidProcessCall("PEQ_ProcessChannel")
    /\ \A b \in Bands : PEQBands[call.index][b].enabled = 0
C4_CompressorCase ==
  ValidProcessCall("Compressor_Process")
    /\ compressorState[call.index].params.enabled = 0
C4_DelayCase ==
  ValidProcessCall("Delay_Process") /\ delayInstances[call.index].enabled = 0
    /\ delayInstances[call.index].isActive = 1 /\ call.value.size > 0
C4_LimiterCase ==
  ValidProcessCall("Limiter_ProcessBlock") /\ limiterBypass[call.index] = 1
    /\ call.value.size > 0

\* C9: a processing call with a null buffer or a zero-length frame is a
\* no-op: no module state changes and the call is not reported as an error.
C9_NullOrEmptyIsNoOp ==
  [][(call'.op \in ProcessOps
        /\ (call'.value.buf.null \/ call'.value.size = 0))
     => (/\ UNCHANGED <<notControl, controlVars>>
         /\ ret' \notin {HAL_ERROR, LIMITER_ERROR})]_vars

\* The half of C9 about the state: such a call changes no module state.
C9_NullOrEmptyKeepsState ==
  [][(call'.op \in ProcessOps
        /\ (call'.value.buf.null \/ call'.value.size = 0))
     => UNCHANGED <<notControl, controlVars>>]_vars

\* ---------------------------------------------------------------------
\* The control API
\* ---------------------------------------------------------------------

\* Band indices the control API is called with: a valid band and the first
\* invalid one.
CallBands == {0, PEQ_MAX_BANDS_PER_CHANNEL}

\* Band settings a caller passes: one inside every range, and one with the
\* frequency and the gain outside their ranges and a zero Q.
PeqBandInRange ==
  [type |-> PEQ_TYPE_BELL, frequency |-> 12000, gain |-> 6, q |-> 7, enabled |-> 1]
PeqBandOutOfRange ==
  [type |-> PEQ_TYPE_BELL, frequency |-> 5, gain |-> 30, q |-> 0, enabled |-> 1]
PeqCallBands == {PeqBandInRange, PeqBandOutOfRange}

\* The same settings as entries of the peq_config.c table (gain in tenths).
PeqConfigEntry(b) ==
  [enabled |-> b.enabled, type |-> b.type, frequency |-> b.frequency,
   gain |-> b.gain * DB_TENTHS, q |-> b.q, dirty |-> 0]

\* A preset: the whole table filled with one entry.
PeqPreset(b) == [channel \in OutChannels |-> [band \in Bands |-> PeqConfigEntry(b)]]

\* Values the single-field setters are called with.
CallFrequencies == {10, 100, 25000}
CallThresholds == {-70, -60, 5}
CallDelayTimes == {-1, 0, MaxDelaySamples, MaxDelaySamples + 1}
CallKneeWidths == {-1, 0, 10, 30}

RoutingControlCalls ==
  \E c \in CallChannels, s \in {AUDIO_SOURCE_NONE, AUDIO_SOURCE_IN2, AUDIO_SOURCE_MAX} :
     AudioRouting_ConfigOutput(c, s)

PeqControlCalls ==
  \E c \in CallChannels, b \in CallBands, cfg \in {NULL} \cup {Ptr(x) : x \in PeqCallBands} :
     PEQ_ConfigureBand(c, b, cfg)

CompressorControlCalls ==
  \E c \in CallChannels, t \in CallThresholds : Compressor_SetThreshold(c, t)

DelayControlCalls ==
  \/ \E cfg \in DelayConfigs : Delay_ConfigChannel(0, Ptr(cfg))
  \/ \E c \in CallChannels, t \in CallDelayTimes : Delay_SetTime(c, t)

CrossoverControlCalls ==
  \E c \in CallChannels, t \in {CROSSOVER_FREQ_LOW, CROSSOVER_FREQ_HIGH},
     f \in CallFrequencies : Crossover_SetFrequency(c, t, f)

LimiterControlCalls ==
  \E c \in CallChannels, cfg \in {NULL} \cup {Ptr(x) : x \in LimiterCallConfigs} :
     Limiter_UpdateConfig(c, cfg)

PeqConfigCalls ==
  \/ \E c \in CallChannels, b \in CallBands,
        cfg \in {NULL} \cup {Ptr(PeqConfigEntry(x)) : x \in PeqCallBands} :
        PEQ_Config_SetBand(c, b, cfg)
  \/ \E c \in CallChannels, b \in CallBands, f \in CallFrequencies :
        PEQ_Config_SetBandFrequency(c, b, f)
  \/ \E c \in CallChannels, b \in CallBands, g \in {-200, 60} :
        PEQ_Config_SetBandGain(c, b, g)
  \/ \E c \in CallChannels, b \in CallBands, q \in {0, 20} :
        PEQ_Config_SetBandQ(c, b, q)
  \/ \E p \in {NULL, Ptr(PeqPreset(PeqBandOutOfRange))},
        n \in {0, PEQ_CONFIG_SIZE} : PEQ_Config_SetFromPreset(p, n)

FilterCalls ==
  \/ \E cfg \in BiquadCallConfigs : Biquad_InitCall(cfg)
  \/ \E x \in ProcessSamples :
        /\ Abs(filterState.y1) <= MaxHistory
        /\ Biquad_ProcessSampleCall(x)

CompressorConfigCalls ==
  \/ \E cfg \in {NULL, Ptr(compConfig)}, w \in CallKneeWidths :
        Compressor_SetKneeWidth(cfg, w)
  \/ \E cfg \in {NULL, Ptr(compConfig)}, st \in {NULL, Ptr(compState)},
        fs \in {0, AUDIO_SAMPLE_RATE} : Compressor_ApplyConfig(cfg, st, fs)

\* Whether each module is as initialised.
AsInitialised ==
  [routing |-> InitAudio, delay |-> InitDelay, limiter |-> InitLimiter,
   crossover |-> InitCrossover, peq |-> InitPeq,
   compressorParams |-> InitCompressorParams, peqConfig |-> InitPeqConfig,
   filter |-> filterState = Biquad_Zero,
   compressorConfig |-> (compConfig = Compressor_InitConfig
                         /\ compState = CompressorConfigState_Zero)]

\* No module but m has been touched.
Alone(m) == \A k \in DOMAIN AsInitialised \ {m} : AsInitialised[k]

\* The control calls of every module, each module exercised on its own.
NextControl ==
  \/ Alone("routing") /\ RoutingControlCalls
  \/ Alone("peq") /\ PeqControlCalls
  \/ Alone("compressorParams") /\ CompressorControlCalls
  \/ Alone("delay") /\ DelayControlCalls
  \/ Alone("crossover") /\ CrossoverControlCalls
  \/ Alone("limiter") /\ LimiterControlCalls
  \/ Alone("peqConfig") /\ PeqConfigCalls
  \/ Alone("filter") /\ FilterCalls
  \/ Alone("compressorConfig") /\ CompressorConfigCalls

SpecControl == Init /\ [][NextControl]_vars

\* Control operations whose index is a channel, and those whose index is a
\* channel and a band.
ChannelIndexedOps ==
  {"AudioRouting_ConfigOutput", "Compressor_SetThreshold", "Delay_ConfigChannel",
   "Delay_SetTime", "Crossover_SetFrequency", "Limiter_UpdateConfig"}

BandIndexedOps ==
  {"PEQ_ConfigureBand", "PEQ_Config_SetBand", "PEQ_Config_SetBandFrequency",
   "PEQ_Config_SetBandGain", "PEQ_Config_SetBandQ"}

\* The call c names a channel or a band that does not exist.
InvalidIndex(c) ==
  CASE c.op \in ChannelIndexedOps -> c.index >= AUDIO_OUTPUT_CHANNELS
    [] c.op \in BandIndexedOps ->
         c.index[1] >= AUDIO_OUTPUT_CHANNELS \/ c.index[2] >= PEQ_MAX_BANDS_PER_CHANNEL
    [] OTHER -> FALSE

\* The status r tells the caller of c that the call was rejected; a void
\* function tells its caller nothing.
ReportsRejection(c, r) ==
  CASE c.op \in BandIndexedOps \cup {"Delay_ConfigChannel", "Delay_SetTime"} ->
         r = HAL_ERROR
    [] c.op = "Limiter_UpdateConfig" -> r = LIMITER_ERROR
    [] c.op = "Compressor_SetThreshold" -> r = "-1"
    [] c.op = "Crossover_SetFrequency" -> r = "1"
    [] OTHER -> FALSE

\* C5: a control-API call given a channel or band index that is out of range
\* changes no module state and reports the rejection through its status code.
C5_InvalidIndexIsRejected ==
  [][InvalidIndex(call')
     => (UNCHANGED <<notControl, controlVars>> /\ ReportsRejection(call', ret'))]_vars

\* The half of C5 about the state: such a call changes no module state.
C5_InvalidIndexKeepsState ==
  [][InvalidIndex(call') => UNCHANGED <<notControl, controlVars>>]_vars

\* The setter c, called with a valid index, was given a value outside the
\* range [lo, hi] of the parameter.
OutOfRangeCall(op, value, lo, hi) ==
  /\ call.op = op
  /\ ~InvalidIndex(call)
  /\ (value < lo \/ value > hi)

\* What C6 says of each setter: the call succeeded and the nearest bound is
\* stored.
DelayTimeIsClamped ==
  (OutOfRangeCall("Delay_SetTime", call.value, 0, MaxDelaySamples)
     /\ delayInstances[call.index].isActive = 1)
  => (ret = HAL_OK
      /\ delayInstances[call.index].currentDelayMs = CLAMP(call.value, 0, MaxDelaySamples))

CrossoverFrequencyIsClamped ==
  OutOfRangeCall("Crossover_SetFrequency", call.value.frequency,
                 CROSSOVER_MIN_FREQ, CROSSOVER_MAX_FREQ)
  => (ret = "0"
      /\ (IF call.value.frequencyType = CROSSOVER_FREQ_LOW
          THEN crossoverConfig[call.index].lowFrequency
          ELSE crossoverConfig[call.index].highFrequency)
         = CLAMP(call.value.frequency, CROSSOVER_MIN_FREQ, CROSSOVER_MAX_FREQ))

PeqConfigFrequencyIsClamped ==
  OutOfRangeCall("PEQ_Config_SetBandFrequency", call.value, PEQ_MIN_FREQ, PEQ_MAX_FREQ)
  => (ret = HAL_OK
      /\ peqConfig[call.index[1]][call.index[2]].frequency
         = CLAMP(call.value, PEQ_MIN_FREQ, PEQ_MAX_FREQ))

PeqConfigGainIsClamped ==
  OutOfRangeCall("PEQ_Config_SetBandGain", call.value,
                 PEQ_MIN_GAIN * DB_TENTHS, PEQ_MAX_GAIN * DB_TENTHS)
  => (ret = HAL_OK
      /\ peqConfig[call.index[1]][call.index[2]].gain
         = CLAMP(call.value, PEQ_MIN_GAIN * DB_TENTHS, PEQ_MAX_GAIN * DB_TENTHS))

PeqConfigQIsClamped ==
  OutOfRangeCall("PEQ_Config_SetBandQ", call.value, PEQ_MIN_Q_TENTHS, PEQ_MAX_Q_TENTHS)
  => (ret = HAL_OK
      /\ peqConfig[call.index[1]][call.index[2]].q
         = CLAMP(call.value, PEQ_MIN_Q_TENTHS, PEQ_MAX_Q_TENTHS))

PeqBandIsClamped ==
  (call.op = "PEQ_ConfigureBand" /\ ~InvalidIndex(call) /\ ~call.value.null)
  => (ret = HAL_OK
      /\ PEQBands[call.index[1]][call.index[2]].frequency
         = CLAMP(call.value.v.frequency, PEQ_MIN_FREQ, PEQ_MAX_FREQ)
      /\ PEQBands[call.index[1]][call.index[2]].gain
         = CLAMP(call.value.v.gain, PEQ_MIN_GAIN, PEQ_MAX_GAIN)
      /\ PEQBands[call.index[1]][call.index[2]].q
         = CLAMP(call.value.v.q, PEQ_MIN_Q_TENTHS, PEQ_MAX_Q_TENTHS))

CompressorThresholdIsClamped ==
  OutOfRangeCall("Compressor_SetThreshold", call.value,
                 COMPRESSOR_MIN_THRESHOLD, COMPRESSOR_MAX_THRESHOLD)
  => (ret = "0"
      /\ compressorParams[call.index].thresholdDb
         = CLAMP(call.value, COMPRESSOR_MIN_THRESHOLD, COMPRESSOR_MAX_THRESHOLD))

\* C6: a control-API setter given an out-of-range frequency, gain, Q or time
\* value (with a valid index) stores the nearest valid bound and returns
\* success.
C6_OutOfRangeValueIsClamped ==
  /\ DelayTimeIsClamped
  /\ CrossoverFrequencyIsClamped
  /\ PeqConfigFrequencyIsClamped
  /\ PeqConfigGainIsClamped
  /\ PeqConfigQIsClamped
  /\ PeqBandIsClamped
  /\ CompressorThresholdIsClamped

\* The setters of C6 that do clamp.
C6_ClampingSetters ==
  /\ PeqConfigGainIsClamped
  /\ PeqBandIsClamped
  /\ CompressorThresholdIsClamped

\* Reading a parameter back after it was set to an out-of-range value gives
\* the nearest in-range bound: the compressor threshold, and the threshold
\* of the limiter configuration (at most 1.0).
ReadBackIsNearestBound ==
  /\ CompressorThresholdIsClamped
  /\ (call.op = "Limiter_UpdateConfig" /\ ~InvalidIndex(call) /\ ~call.value.null
        /\ call.value.v.threshold > ONE)
     => limiterConfig[call.index].threshold = ONE

\* Setting a parameter to the bound it already holds changes nothing.
SetAgainIsNoOp ==
  /\ (call'.op = "Compressor_SetThreshold" /\ ~InvalidIndex(call')
        /\ call'.value \in {COMPRESSOR_MIN_THRESHOLD, COMPRESSOR_MAX_THRESHOLD}
        /\ call'.value = compressorParams[call'.index].thresholdDb)
     => UNCHANGED <<notControl, controlVars>>
  /\ (call'.op = "Limiter_UpdateConfig" /\ ~InvalidIndex(call') /\ ~call'.value.null
        /\ call'.value.v = limiterConfig[call'.index])
     => UNCHANGED <<notControl, controlVars>>

\* C7: setting a parameter to an out-of-range value and reading it back
\* returns the nearest in-range bound, and setting it again to that bound is
\* a no-op.
C7_ClampThenSetAgain == [](ReadBackIsNearestBound) /\ [][SetAgainIsNoOp]_vars

\* What C7 says of the compressor threshold alone.
C7_CompressorThreshold ==
  [](CompressorThresholdIsClamped) /\ [][SetAgainIsNoOp]_vars

\* The compressor threshold was set below its range, and then set again to
\* the bound that was stored.
C7_CompressorCase ==
  /\ call.op = "Compressor_SetThreshold"
  /\ ~InvalidIndex(call)
  /\ call.value = COMPRESSOR_MIN_THRESHOLD
  /\ compressorParams[call.index].thresholdDb = COMPRESSOR_MIN_THRESHOLD

\* A stored band setting is inside the ranges: frequency 20 Hz .. 20 kHz,
\* Q 0.1 .. 10, gain -12 .. +12 dB (gainUnit is the resolution of the gain).
BandInRange(b, gainUnit) ==
  /\ b.frequency >= PEQ_MIN_FREQ /\ b.frequency <= PEQ_MAX_FREQ
  /\ b.q >= PEQ_MIN_Q_TENTHS /\ b.q <= PEQ_MAX_Q_TENTHS
  /\ b.gain >= PEQ_MIN_GAIN * gainUnit /\ b.gain <= PEQ_MAX_GAIN * gainUnit

PeqFilterBandsInRange ==
  \A ch \in OutChannels, b \in Bands : BandInRange(PEQBands[ch][b], 1)

PeqConfigBandsInRange ==
  \A ch \in OutChannels, b \in Bands : BandInRange(peqConfig[ch][b], DB_TENTHS)

CrossoverFrequenciesInRange ==
  \A ch \in OutChannels :
     /\ crossoverConfig[ch].lowFrequency >= CROSSOVER_MIN_FREQ
     /\ crossoverConfig[ch].lowFrequency <= CROSSOVER_MAX_FREQ
     /\ crossoverConfig[ch].highFrequency >= CROSSOVER_MIN_FREQ
     /\ crossoverConfig[ch].highFrequency <= CROSSOVER_MAX_FREQ

\* C8: after any sequence of control-API calls (single-field setters,
\* whole-band set, preset load) every stored filter band has its frequency
\* in [20, 20000] Hz, its Q in [0.1, 10] and, for the parametric EQ, its gain
\* in [-12, +12] dB.
C8_StoredBandsInRange ==
  /\ PeqFilterBandsInRange
  /\ PeqConfigBandsInRange
  /\ CrossoverFrequenciesInRange

\* The tables whose every writer validates or clamps.
C8_ValidatedTables == PeqFilterBandsInRange /\ CrossoverFrequenciesInRange

\* Every coefficient and state value of a filter chain is finite.
FilterChain_IsFinite(filter) ==
  IsFinite(filter.gain) /\ \A i \in Stages : Biquad_IsFinite(filter.stages[i])

\* Every value of a record of floats is finite.
Record_IsFinite(r) == \A f \in DOMAIN r : IsFinite(r[f])

\* The filters and the compressor states of the modules are finite.
ModuleValuesFinite ==
  /\ \A ch \in OutChannels :
        \A n \in DOMAIN ChainsOf(ch) : FilterChain_IsFinite(ChainsOf(ch)[n])
  /\ \A ch \in OutChannels, b \in Bands : Biquad_IsFinite(PEQBiquadStates[ch][b])
  /\ \A ch \in OutChannels : Record_IsFinite(compressorCoeffState[ch])

\* C10: no control-API call with a degenerate value (zero or negative
\* frequency, zero Q, zero knee width) leads to a NaN or Inf coefficient or
\* state value.
C10_NoNonFiniteValue ==
  /\ ModuleValuesFinite
  /\ Biquad_IsFinite(filterState)
  /\ Record_IsFinite(compState)

\* What C10 says of the filter a caller designs with Biquad_Init, and of the
\* state Compressor_ApplyConfig writes.
C10_CallerFilterFinite == Biquad_IsFinite(filterState)
C10_CallerCompressorFinite == Record_IsFinite(compState)
\* ---------------------------------------------------------------------
\* The main loop under interrupts
\* ---------------------------------------------------------------------

\* The interrupts arrive at any point; the two branches of the main loop and
\* the steps of the call in progress run one after the other.
NextMainLoop ==
  \/ Audio_ProcessCallback
  \/ HAL_TIM_PeriodElapsedCallback
  \/ \E ch \in LoopChannels, x \in LoopSamples : MainLoop_Audio(ch, x)
  \/ \E ch \in LoopChannels, t \in {CROSSOVER_FREQ_LOW, CROSSOVER_FREQ_HIGH},
        f \in LoopFrequencies : MainLoop_Ui(ch, t, f)
  \/ CalculateFilterCoefficients_Clear
  \/ CalculateFilterCoefficients_Design
  \/ CalculateFilterCoefficients_Reset

SpecMainLoop == Init /\ [][NextMainLoop]_vars

ChainChannels == {0, 1}

\* The one-sample buffers passed to the processing calls.
ChainBuffers == {Ptr(<<ONE \div 2>>)}

\* The limiter before the first Limiter_Init: its statics are zero.
InitLimiterStatics ==
  /\ limiterState = [ch \in OutChannels |-> Limiter_ZeroState]
  /\ limiterConfig = [ch \in OutChannels |-> Limiter_DefaultConfig]
  /\ limiterInitialized = 0
  /\ limiterBypass = [ch \in OutChannels |-> 0]

InitChannels ==
  /\ InitAudio
  /\ InitDelay
  /\ InitLimiterStatics
  /\ InitCrossover
  /\ InitPeq
  /\ InitCompressor
  /\ InitCompressorParams
  /\ InitPeqConfig
  /\ InitPeqInstances
  /\ InitCrossoverModule
  /\ InitCrossoverConfig
  /\ InitCaller
  /\ InitMain
  /\ procBuffer = NULL
  /\ call = [op |-> "main", index |-> 0, value |-> 0]
  /\ ret = VOID

\* Initialisation, reconfiguration and processing of either channel.  A limiter
\* channel whose gain has become NaN is not processed further.
LimiterChannelCalls ==
  \/ \E c \in ChainChannels : Limiter_Init(c, Ptr(Limiter_DefaultConfig))
  \/ \E c \in ChainChannels, b \in ChainBuffers :
        /\ IsFinite(limiterState[c].currentGain)
        /\ Limiter_ProcessBlock(c, b, 1)

DelayChannelCalls ==
  \/ \E m \in {DELAY_INTERPOLATION_LINEAR, DELAY_INTERPOLATION_CUBIC, "2"} :
        Delay_SetInterpolationMode(m)
  \/ \E c \in ChainChannels, cfg \in DelayConfigs : Delay_ConfigChannel(c, Ptr(cfg))
  \/ \E c \in ChainChannels, b \in ChainBuffers : Delay_ProcessCall(c, b, 1)

CompressorChannelCalls ==
  \/ \E c \in ChainChannels, e \in {0, 1} : Compressor_SetEnabled(c, e)
  \/ \E c \in ChainChannels, b \in ChainBuffers : Compressor_Process(c, b)

\* The modules keep separate state, so each is exercised on its own.
NextChannels ==
  \/ InitDelay /\ InitCompressor /\ LimiterChannelCalls
  \/ InitLimiterStatics /\ InitCompressor /\ DelayChannelCalls
  \/ InitLimiterStatics /\ InitDelay /\ CompressorChannelCalls

SpecChannels == InitChannels /\ [][NextChannels]_vars

\* The calls of SpecChannels that name one channel.
OneChannelOps ==
  {"Limiter_Init", "Limiter_ProcessBlock", "Delay_ConfigChannel", "Delay_Process",
   "Compressor_SetEnabled", "Compressor_Process"}

\* The entries of channel d in the per-channel arrays of the three modules.
ChannelEntries(d) ==
  [limiter |-> <<limiterState[d], limiterConfig[d], limiterBypass[d]>>,
   delay |-> delayInstances[d],
   compressor |-> <<compressorState[d], rmsBuffer[d], rmsBufferIndex[d]>>]

\* Everything the processing of channel d reads: its entries and the flags of
\* the modules.
ChannelState(d) ==
  [entries |-> ChannelEntries(d),
   flags |-> <<limiterInitialized, isDelaySystemInitialized, interpolationMode>>]

\* C12: a call that initialises, reconfigures or processes one output channel
\* leaves unchanged everything the chain of every other output channel reads,
\* so that each channel's output depends on its own input, configuration and
\* history only.
C12_ChannelIndependence ==
  [][\A d \in OutChannels :
       (call'.op \in OneChannelOps /\ call'.index # d)
         => ChannelState(d)' = ChannelState(d)]_vars

\* The part of C12 that holds: such a call leaves the entries of every other
\* channel in the per-channel arrays unchanged.
C12_ChannelEntriesUntouched ==
  [][\A d \in OutChannels :
       (call'.op \in OneChannelOps /\ call'.index # d)
         => ChannelEntries(d)' = ChannelEntries(d)]_vars

\* A channel that was never initialised is processed, and silenced, because
\* another channel was initialised.
C12_UninitialisedChannelProcessed ==
  /\ call.op = "Limiter_ProcessBlock"
  /\ ret = LIMITER_OK
  /\ limiterState[call.index].attackTime = 0
  /\ call.value.buf = Ptr(<<ONE \div 2>>)
  /\ procBuffer = Ptr(<<0>>)

\* ---------------------------------------------------------------------
\* Impulse response of the delay line
\* ---------------------------------------------------------------------

\* Samples in the blocks passed to Delay_Process.
ImpulseLen == 3

\* 1.0 followed by zeros, and 1.0 throughout.
Impulse == [i \in 1 .. ImpulseLen |-> IF i = 1 THEN ONE ELSE 0]
Step == [i \in 1 .. ImpulseLen |-> ONE]

\* The impulse at index n (counted from 0) and zero elsewhere.
DelayedImpulse(n) == [i \in 1 .. ImpulseLen |-> IF i = n + 1 THEN ONE ELSE 0]

\* The delay line of a channel holds no sample.
Delay_Flushed(inst) ==
  /\ \A i \in DOMAIN inst.buffer : inst.buffer[i] = 0
  /\ inst.prevSample = 0

\* Configuration, flushing and processing of the delay lines of two channels.
NextImpulse ==
  \/ \E c \in ChainChannels, cfg \in DelayConfigs : Delay_ConfigChannel(c, Ptr(cfg))
  \/ \E c \in ChainChannels : Delay_FlushBuffer(c)
  \/ \E c \in ChainChannels, b \in {Impulse, Step} : Delay_ProcessCall(c, Ptr(b), ImpulseLen)

SpecImpulse == Init /\ [][NextImpulse]_vars

\* The delay line of channel c is enabled, flushed and not inverting, and the
\* step is Delay_Process on the impulse.
ImpulseThrough(c) ==
  /\ delayInstances[c].isActive = 1
  /\ delayInstances[c].enabled = 1
  /\ delayInstances[c].phaseInvert = 0
  /\ Delay_Flushed(delayInstances[c])
  /\ call'.op = "Delay_Process"
  /\ call'.index = c
  /\ call'.value = [buf |-> Ptr(Impulse), size |-> ImpulseLen]

\* C13: an impulse through an enabled, flushed delay line of N whole samples
\* without phase inversion comes out as 1.0 at index N and 0.0 at every other
\* index.
C13_ImpulseAtIndexN ==
  [][\A c \in ChainChannels :
       ImpulseThrough(c)
         => procBuffer' = Ptr(DelayedImpulse(delayInstances[c].delaySamples))]_vars

\* What holds of the impulse response: silence before index N, and a sample
\* other than zero at index N.
C13_SilentBeforeIndexN ==
  [][\A c \in ChainChannels :
       ImpulseThrough(c)
         => /\ \A i \in 1 .. delayInstances[c].delaySamples : procBuffer'.v[i] = 0
            /\ procBuffer'.v[delayInstances[c].delaySamples + 1] > 0]_vars

\* ---------------------------------------------------------------------
\* The compressor at a ratio of 1:1
\* ---------------------------------------------------------------------

\* Parameters a caller passes to Compressor_SetParameters: the ratio 1:1 and
\* the ratio 4:1, thresholds at and below full scale, no knee and a knee.
RatioParams ==
  [enabled : {1}, threshold_db : {-6, 0}, ratio : {RATIO_TENTHS, 4 * RATIO_TENTHS},
   attackTime_ms : {1}, releaseTime_ms : {1}, makeupGain_db : {0},
   kneeWidth_db : {0, 6}, useSoftKnee : {0, 1}, useRMS : {0}]

\* Samples at half scale, at full scale and above it.
RatioSamples == {ONE \div 2, ONE, 2 * ONE}

NextRatio ==
  \/ \E p \in RatioParams : Compressor_SetParameters(0, Ptr(p))
  \/ \E x \in RatioSamples : Compressor_Process(0, Ptr(<<x>>))

SpecRatio == Init /\ [][NextRatio]_vars

\* The gain reduction Compressor_Process computed for the last sample of the
\* channel: Compressor_CalculateGain on the envelope of that sample.
Compressor_LastGainReduction(channel) ==
  Compressor_CalculateGain(compressorState[channel],
                           compressorState[channel].envelope_db)

\* C14: with the ratio 1:1 the gain reduction of every processed sample is
\* zero, whatever the level, the threshold and the knee.
C14_UnityRatioNoReduction ==
  (/\ call.op = "Compressor_Process"
   /\ compressorState[call.index].params.enabled # 0
   /\ compressorState[call.index].params.ratio = RATIO_TENTHS)
    => Compressor_LastGainReduction(call.index) = 0

\* What holds: the same with a knee wider than zero, or with the hard knee.
C14_UnityRatioNoReductionWithKnee ==
  (/\ call.op = "Compressor_Process"
   /\ compressorState[call.index].params.enabled # 0
   /\ compressorState[call.index].params.ratio = RATIO_TENTHS
   /\ \/ compressorState[call.index].params.kneeWidth_db > 0
      \/ compressorState[call.index].params.useSoftKnee = 0)
    => Compressor_LastGainReduction(call.index) = 0

\* The ratio 4:1 does reduce the gain of a sample above the threshold.
C14_RatioReduces ==
  /\ call.op = "Compressor_Process"
  /\ compressorState[call.index].params.ratio = 4 * RATIO_TENTHS
  /\ Compressor_LastGainReduction(call.index) < 0

\* ---------------------------------------------------------------------
\* The limiter on a sustained sine
\* ---------------------------------------------------------------------

\* -3 dB, 10^(-3 / 20) = 0.708.
ThresholdMinus3dB == RoundDiv(708 * ONE, 1000)

\* Two periods of a full-scale sine of four and of eight samples a period.
SinePeriods == {4, 8}
SineQuarter(period) == IF period = 4 THEN <<0, ONE>> ELSE <<0, RoundDiv(707 * ONE, 1000), ONE, RoundDiv(707 * ONE, 1000)>>
SineBlock(period) ==
  [i \in 1 .. (2 * period) |->
     LET k == (i - 1) % period
         half == period \div 2
     IN IF k < half THEN SineQuarter(period)[k + 1] ELSE -SineQuarter(period)[k - half + 1]]

\* Limiter configurations with the threshold at -3 dB.
SineConfigs ==
  [threshold : {ThresholdMinus3dB}, knee : {0}, attackTime : {1, 200},
   releaseTime : {100}, lookaheadTime : {1}, enableLookahead : {0, 1},
   enableISP : {0}, adaptiveRelease : {0}]

NextSine ==
  \/ \E c \in ChainChannels, cfg \in SineConfigs : Limiter_UpdateConfig(c, Ptr(cfg))
  \/ \E c \in ChainChannels, p \in SinePeriods :
        Limiter_ProcessBlock(c, Ptr(SineBlock(p)), 2 * p)

SpecSine == Init /\ [][NextSine]_vars

\* The last call limited a sine with the threshold at -3 dB.
SineLimited ==
  /\ call.op = "Limiter_ProcessBlock"
  /\ ret = LIMITER_OK
  /\ limiterConfig[call.index].threshold = ThresholdMinus3dB

\* C15: on a sustained full-scale sine with the threshold at -3 dB the output
\* peak in the steady state, here the second period of the block, is at most
\* the threshold plus 0.1 dB; 0.1 dB is less than one step of the sample grid,
\* so the bound is the threshold.
C15_SteadyStatePeakAtThreshold ==
  SineLimited =>
    \A i \in (call.value.size \div 2 + 1) .. call.value.size :
      Abs(procBuffer.v[i]) <= ThresholdMinus3dB

\* ---------------------------------------------------------------------
\* Bands with a gain of 0 dB
\* ---------------------------------------------------------------------

\* The band types with a gain, in biquad.c and in peq_filter.c.
BiquadGainTypes == {BIQUAD_TYPE_PEAK, BIQUAD_TYPE_LOWSHELF, BIQUAD_TYPE_HIGHSHELF}
PeqGainTypes == {PEQ_TYPE_BELL, PEQ_TYPE_LOW_SHELF, PEQ_TYPE_HIGH_SHELF}

\* Configurations within the ranges: frequencies of 1 kHz and 12 kHz, Q of 0.7
\* and 10, gains of 0 dB and of 6 dB for the caller's filter.
FlatFrequencies == {1000, 12000}
FlatQs == {7, 100}

BiquadGainConfigs ==
  [type : BiquadGainTypes, frequency : FlatFrequencies, Q : FlatQs,
   gainDB : {0, 6}, sampleRate : {AUDIO_SAMPLE_RATE}]

PeqFlatBands ==
  [type : PeqGainTypes, frequency : FlatFrequencies, gain : {0}, q : FlatQs,
   enabled : {1}]

NextFlat ==
  \/ \E cfg \in BiquadGainConfigs : InitPeq /\ Biquad_InitCall(cfg)
  \/ \E x \in {ONE \div 2} :
        /\ InitPeq
        /\ Abs(filterState.y1) <= MaxHistory
        /\ Biquad_ProcessSampleCall(x)
  \/ \E cfg \in PeqFlatBands :
        filterState = Biquad_Zero /\ PEQ_ConfigureBand(0, 0, Ptr(cfg))
  \/ \E x \in {ONE \div 2} :
        /\ filterState = Biquad_Zero
        /\ HistoryWithin(PEQBiquadStates[0], Bands)
        /\ PEQ_ProcessChannel(0, Ptr(<<x>>))

SpecFlat == Init /\ [][NextFlat]_vars

\* A filter of biquad.c has just been initialised with a gain of 0 dB and the
\* step processes its first sample.
FirstSampleOfFlatBiquad ==
  /\ call.op = "Biquad_Init"
  /\ call.value.gainDB = 0
  /\ call'.op = "Biquad_ProcessSample"

\* C16: a bell, low-shelf or high-shelf band with a gain of 0 dB returns its
\* input, for every frequency and Q within the ranges; the tolerance of 1e-5
\* is less than one step of the sample grid.
C16_FlatBandIsIdentity ==
  [][/\ FirstSampleOfFlatBiquad => procBuffer' = call'.value.buf
     /\ call'.op = "PEQ_ProcessChannel" => procBuffer' = call'.value.buf]_vars

\* What holds: the same of the bands of peq_filter.c, and of the peaking
\* filter of biquad.c.
C16_FlatPeqBandIsIdentity ==
  [][call'.op = "PEQ_ProcessChannel" => procBuffer' = call'.value.buf]_vars

C16_FlatPeakIsIdentity ==
  [][(FirstSampleOfFlatBiquad /\ call.value.type = BIQUAD_TYPE_PEAK)
       => procBuffer' = call'.value.buf]_vars

\* ---------------------------------------------------------------------
\* Telemetry reads
\* ---------------------------------------------------------------------

\* float Limiter_GetGainReduction(channel), limiter_proc.c: 20 log10 of the
\* current gain; the value returned is left in procBuffer.
Limiter_GetGainReduction(channel) ==
  /\ call' = [op |-> "Limiter_GetGainReduction", index |-> channel, value |-> 0]
  /\ ret' = VOID
  /\ procBuffer' =
       IF channel >= AUDIO_OUTPUT_CHANNELS THEN Ptr(<<0>>)
       ELSE LET g == limiterState[channel].currentGain
            IN Ptr(<<IF ~IsFinite(g) THEN (IF g = F_INF THEN F_INF ELSE F_NAN)
                     ELSE IF g < 0 THEN F_NAN
                     ELSE IF g = 0 THEN F_NINF
                     ELSE Log2Db(g)>>)
  /\ UNCHANGED limiterVars
  /\ UNCHANGED notLimiter

\* void Compressor_GetStatistics(channel, stats), compressor_proc.c: the
\* caller's structure after the call is left in procBuffer.
Compressor_GetStatistics(channel, stats) ==
  /\ call' = [op |-> "Compressor_GetStatistics", index |-> channel, value |-> stats]
  /\ ret' = VOID
  /\ procBuffer' =
       IF channel >= AUDIO_OUTPUT_CHANNELS \/ stats.null THEN stats
       ELSE Ptr(<<compressorState[channel].stats.gainReduction_db,
                  compressorState[channel].stats.inputLevel_db,
                  compressorState[channel].stats.outputLevel_db>>)
  /\ UNCHANGED compressorVars
  /\ UNCHANGED notCompressor

\* Buffers whose level the meter reads: silence and a level of 3.0.
MeterBuffers == {<<0>>, <<3 * ONE>>}

\* Limiter configurations and blocks between the reads.
TelemetryLimiterConfigs ==
  [threshold : {ONE \div 2}, knee : {0}, attackTime : {1}, releaseTime : {100},
   lookaheadTime : {0}, enableLookahead : {0}, enableISP : {0}, adaptiveRelease : {0}]

\* The statistics structures a caller passes.
StatisticsPointers == {NULL, Ptr(<<0, 0, 0>>)}

\* The reads of each module between its processing calls, the other modules
\* as initialised.
NextTelemetry ==
  \/ /\ InitLimiter /\ InitCompressor
     /\ \E c \in CallChannels, b \in MeterBuffers : Audio_CalculateRMSCall(c, b)
  \/ /\ InitAudio /\ InitCompressor
     /\ \E c \in ValidCallChannels, cfg \in TelemetryLimiterConfigs :
          Limiter_UpdateConfig(c, Ptr(cfg))
  \/ /\ InitAudio /\ InitCompressor
     /\ \E c \in ValidCallChannels, x \in RatioSamples :
          Limiter_ProcessBlock(c, Ptr(<<x>>), 1)
  \/ /\ InitAudio /\ InitCompressor
     /\ \E c \in CallChannels : Limiter_GetGainReduction(c)
  \/ /\ InitAudio /\ InitLimiter
     /\ \E c \in ValidCallChannels, p \in RatioParams : Compressor_SetParameters(c, Ptr(p))
  \/ /\ InitAudio /\ InitLimiter
     /\ \E c \in ValidCallChannels, x \in RatioSamples : Compressor_Process(c, Ptr(<<x>>))
  \/ /\ InitAudio /\ InitLimiter
     /\ \E c \in CallChannels, s \in StatisticsPointers : Compressor_GetStatistics(c, s)

SpecTelemetry == Init /\ [][NextTelemetry]_vars

\* The state of the modules and of the meters: every variable of the program
\* but the caller's buffer and the record of the last call.
ModuleState == <<audioVars, delayVars, limiterVars, dspVars, controlVars>>

\* A step is a read by one of ops that changes no state and, when it repeats
\* the read before it, returns the same value.
ReadChangesNothing(ops) ==
  call'.op \in ops =>
    /\ UNCHANGED ModuleState
    /\ (call.op = call'.op /\ call.index = call'.index /\ call.value = call'.value)
         => procBuffer' = procBuffer

\* C17: a telemetry read (the RMS level, the limiter's gain reduction, the
\* compressor's statistics) changes no module or meter state, and a read
\* repeated with no processing call in between returns the same value.
C17_TelemetryReadsChangeNoState ==
  [][ReadChangesNothing({"Audio_CalculateRMS", "Limiter_GetGainReduction",
                         "Compressor_GetStatistics"})]_vars

\* What holds: the reads of the limiter and of the compressor change no state
\* and repeat their value.
C17_GainReductionReadsChangeNoState ==
  [][ReadChangesNothing({"Limiter_GetGainReduction", "Compressor_GetStatistics"})]_vars

\* A gain reduction below 0 dB has been read from the limiter.
C17_ReductionRead ==
  /\ call.op = "Limiter_GetGainReduction"
  /\ IsFinite(procBuffer.v[1]) /\ procBuffer.v[1] < 0

\* Statistics of a processed sample have been read from the compressor.
C17_StatisticsRead ==
  /\ call.op = "Compressor_GetStatistics"
  /\ ~procBuffer.null /\ procBuffer.v # <<0, 0, 0>>

\* ---------------------------------------------------------------------
\* Hold and release of the limiter
\* ---------------------------------------------------------------------

\* Limiter configurations with the threshold at half scale, without lookahead
\* and inter-sample protection: the level the gain is computed from is the
\* peak level of the sample.
HoldConfigs ==
  [threshold : {ONE \div 2}, knee : {0}, attackTime : {1, 200}, releaseTime : {100},
   lookaheadTime : {0}, enableLookahead : {0}, enableISP : {0}, adaptiveRelease : {0}]

\* Samples below, at and above the threshold.
HoldSamplesIn == {0, ONE \div 2, ONE, -(2 * ONE)}

NextHold ==
  \/ \E c \in ValidCallChannels, cfg \in HoldConfigs : Limiter_UpdateConfig(c, Ptr(cfg))
  \/ \E c \in ValidCallChannels, x \in HoldSamplesIn : Limiter_ProcessBlock(c, Ptr(<<x>>), 1)

SpecHold == Init /\ [][NextHold]_vars

\* The step processes one sample of channel c, after which the level is not
\* above the threshold.
ProcessedBelowThreshold(c) ==
  /\ call'.op = "Limiter_ProcessBlock" /\ call'.index = c /\ ret' = LIMITER_OK
  /\ limiterState'[c].peakLevel <= limiterConfig[c].threshold

\* C18: while the level is below the threshold and the hold counter has not
\* reached zero the gain stays what it was, and the gain rises towards unity
\* only on a sample that leaves the hold counter at zero.
C18_GainFrozenDuringHold ==
  [][\A c \in ValidCallChannels :
       ProcessedBelowThreshold(c) =>
         /\ limiterState'[c].holdCounter > 0
              => limiterState'[c].currentGain = limiterState[c].currentGain
         /\ limiterState'[c].currentGain > limiterState[c].currentGain
              => limiterState'[c].holdCounter = 0]_vars

\* What holds: a sample above the threshold loads the hold counter, a sample
\* not above it counts it down by one, and the counter stops at zero.
C18_HoldCounterCountsDown ==
  [][\A c \in ValidCallChannels :
       (call'.op = "Limiter_ProcessBlock" /\ call'.index = c /\ ret' = LIMITER_OK) =>
         limiterState'[c].holdCounter =
           IF limiterState'[c].peakLevel > limiterConfig[c].threshold THEN HoldSamples
           ELSE IF limiterState[c].holdCounter > 0 THEN limiterState[c].holdCounter - 1
           ELSE 0]_vars

\* What the program does instead: in the hold period the gain is at unity from
\* the first sample below the threshold on.
C18_UnityGainDuringHold ==
  [][\A c \in ValidCallChannels :
       (ProcessedBelowThreshold(c) /\ limiterState'[c].holdCounter > 0)
         => limiterState'[c].currentGain = ONE]_vars

\* The hold period of a limiter that had reduced the gain: the level has
\* fallen below the threshold, the counter is running, the gain is at unity.
C18_HoldAfterReduction ==
  \E c \in ValidCallChannels :
    /\ call.op = "Limiter_ProcessBlock" /\ call.index = c
    /\ limiterState[c].holdCounter > 0 /\ limiterState[c].holdCounter < HoldSamples
    /\ limiterState[c].peakLevel <= limiterConfig[c].threshold
    /\ limiterState[c].currentGain = ONE

\* ---------------------------------------------------------------------
\* Reconfiguration of the crossover
\* ---------------------------------------------------------------------

\* Modes, response types, orders and cutoffs a caller sets: one and two
\* stages, a cutoff away from the default ones.
ReconfigureModes == {CROSSOVER_MODE_LOWPASS, CROSSOVER_MODE_HIGHPASS}
ReconfigureTypes == {CROSSOVER_TYPE_LINKWITZ_RILEY}
ReconfigureOrders == {2, 4}
ReconfigureFrequencies == {12000}

CrossoverSetters ==
  {"Crossover_SetFilterMode", "Crossover_SetFilterType", "Crossover_SetOrder",
   "Crossover_SetFrequency"}

\* The history of a biquad stage is all zero.
HistoryCleared(state) == state.x1 = 0 /\ state.x2 = 0 /\ state.y1 = 0 /\ state.y2 = 0

\* The stages of channel ch that process samples: those below the stage
\* count of each chain.
StagesInUse(ch) ==
  {<<n, i>> \in ChainNames \X Stages : i < ChainsOf(ch)[n].numStages}

\* The four setters of the crossover between samples of channel 0, at
\* most two samples after each reconfiguration.
NextReconfigure ==
  \/ \E m \in ReconfigureModes : Crossover_SetFilterMode(0, m)
  \/ \E t \in ReconfigureTypes : Crossover_SetFilterType(0, t)
  \/ \E o \in ReconfigureOrders : Crossover_SetOrder(0, o)
  \/ \E t \in {CROSSOVER_FREQ_LOW, CROSSOVER_FREQ_HIGH}, f \in ReconfigureFrequencies :
        Crossover_SetFrequency(0, t, f)
  \/ /\ \A s \in StagesInUse(0) : ChainsOf(0)[s[1]].stages[s[2]].y2 = 0
     /\ \E x \in LoopSamples : Crossover_ProcessSample(0, x)

SpecReconfigure == Init /\ [][NextReconfigure]_vars

ConfiguredBands == {<<0, 0>>, <<1, 1>>}

\* Band configurations a caller passes: a boosting bell and a low-pass.
BandConfigs ==
  [type : {PEQ_TYPE_BELL, PEQ_TYPE_LOW_PASS}, frequency : {12000}, gain : {6},
   q : {7}, enabled : {1}]

\* The calls on the instances of peq_init.c, with at most two samples of a
\* band between two calls that clear its history, while the bands of
\* peq_filter.c are as initialised; and the calls on the bands of
\* peq_filter.c, while the instances are as initialised.
NextBand ==
  \/ /\ InitPeq
     /\ \E cb \in ConfiguredBands, cfg \in BandConfigs :
          PEQ_ConfigureInstance(cb[1], cb[2], Ptr(cfg))
  \/ /\ InitPeq
     /\ \E cb \in ConfiguredBands :
          /\ peqInstances[cb[1]][cb[2]].state.y2 = 0
          /\ PEQ_ProcessInstance(cb[1], cb[2], ONE)
  \/ /\ InitPeq
     /\ \E cb \in ConfiguredBands : PEQ_ResetBand(cb[1], cb[2])
  \/ /\ InitPeqInstances
     /\ \E cb \in ConfiguredBands, cfg \in BandConfigs :
          PEQ_ConfigureBand(cb[1], cb[2], Ptr(cfg))
  \/ /\ InitPeqInstances
     /\ \E cb \in ConfiguredBands :
          /\ \A b \in Bands : PEQBiquadStates[cb[1]][b].y2 = 0
          /\ PEQ_ProcessChannel(cb[1], Ptr(<<ONE>>))

SpecBand == Init /\ [][NextBand]_vars

\* The step is an accepted PEQ_ConfigureBand of peq_init.c.
InstanceConfigured ==
  call'.op = "PEQ_ConfigureBand (peq_init.c)" /\ ret' = DSP_OK

\* The step leaves every instance but that of the call as it was, and the
\* coefficients of the call's band are those of its stored configuration.
OnlyThatInstanceRecomputed ==
  /\ \A ch \in OutChannels, b \in Bands :
       <<ch, b>> # call'.index => peqInstances'[ch][b] = peqInstances[ch][b]
  /\ peqInstances'[call'.index[1]][call'.index[2]].coef =
       PEQ_CalculateCoefficients(peqInstances'[call'.index[1]][call'.index[2]]).coef

\* C20: reconfiguring one band recomputes the coefficients of that band and
\* clears its history, and leaves the coefficients and the history of every
\* other band and channel unchanged.
C20_BandReconfiguredAndCleared ==
  [][InstanceConfigured =>
       /\ OnlyThatInstanceRecomputed
       /\ peqInstances'[call'.index[1]][call'.index[2]].state = PEQ_StateZero]_vars

\* What holds for peq_init.c: the coefficients of that band only are
\* recomputed, every other band and channel is left as it was.
C20_OnlyThatInstanceChanges ==
  [][InstanceConfigured => OnlyThatInstanceRecomputed]_vars

\* What holds for peq_filter.c: an accepted PEQ_ConfigureBand changes the
\* configuration and the biquad of that band only, and the coefficients of
\* the band are those of its stored configuration.
C20_OnlyThatBandChanges ==
  [][(call'.op = "PEQ_ConfigureBand" /\ ret' = HAL_OK) =>
       /\ \A ch \in OutChannels, b \in Bands :
            <<ch, b>> # call'.index =>
              /\ PEQBands'[ch][b] = PEQBands[ch][b]
              /\ PEQBiquadStates'[ch][b] = PEQBiquadStates[ch][b]
       /\ LET ch == call'.index[1]
              b == call'.index[2]
          IN PEQBiquadStates'[ch][b] =
               PEQ_UpdateFilterCoefficients(PEQBiquadStates'[ch][b], PEQBands'[ch][b])]_vars

\* A band that had processed samples has been reconfigured: its coefficients
\* are new and its history is what the samples left.
C20_HistoryKept ==
  /\ call.op = "PEQ_ConfigureBand (peq_init.c)" /\ ret = DSP_OK
  /\ peqInstances[call.index[1]][call.index[2]].state # PEQ_StateZero
  /\ peqInstances[call.index[1]][call.index[2]].coef
       # PEQ_InitInstance(call.index[2]).coef
\* ---------------------------------------------------------------------
\* Disabling and re-enabling the compressor
\* ---------------------------------------------------------------------

\* Parameters of the channel: threshold -6 dB, ratio 4:1, hard knee, the
\* immediate attack (0.1 ms and below) and an attack of 20 ms, the level
\* detector on the RMS window and on the peak.
ReenableParams ==
  [enabled : {1}, threshold_db : {-6}, ratio : {4 * RATIO_TENTHS},
   attackTime_ms : {1, 200}, releaseTime_ms : {1}, makeupGain_db : {0},
   kneeWidth_db : {0}, useSoftKnee : {0}, useRMS : {0, 1}]

\* A quiet sample, -12 dB, and a loud one, +6 dB.
ReenableSamples == {ONE \div 4, 2 * ONE}

\* Compressor_SetEnabled(channel, 1) is called on a disabled channel only, so
\* every enable is a re-enable or the first enable after Compressor_Init.
NextReenable ==
  \/ \E p \in ReenableParams : Compressor_SetParameters(0, Ptr(p))
  \/ \E c \in CallChannels : Compressor_SetEnabled(c, 0)
  \/ compressorState[0].params.enabled = 0 /\ Compressor_SetEnabled(0, 1)
  \/ \E x \in ReenableSamples : Compressor_Process(0, Ptr(<<x>>))
  \/ \E c \in CallChannels, e \in {0, 1} :
        InitCompressor /\ Compressor_Init_SetEnabled(c, e)
  \/ \E cfg \in {NULL, Ptr(0)}, e \in {0, 1} :
        InitCompressor /\ Compressor_Config_SetEnabled(cfg, e)

SpecReenable == Init /\ [][NextReenable]_vars

\* The step processes the first sample after channel 0 was enabled again.
FirstSampleAfterReenable ==
  /\ call.op = "Compressor_SetEnabled"
  /\ call.index = 0
  /\ call.value = 1
  /\ call'.op = "Compressor_Process"

\* What Compressor_Process makes of the block on a channel with the same
\* parameters and no signal history (the state Compressor_ResetChannel leaves).
ProcessedWithoutHistory(channel, data) ==
  LET fresh == Compressor_ResetChannelState(compressorState[channel])
  IN Compressor_ProcessLoop(fresh.st, fresh.buffer, fresh.index, data, 1)

\* The sample, the envelope and the gain of the step are those of a channel
\* without signal history.
AsWithoutHistory ==
  LET r == ProcessedWithoutHistory(0, call'.value.buf.v)
  IN /\ procBuffer'.v = r.data
     /\ compressorState'[0].envelope_db = r.st.envelope_db
     /\ compressorState'[0].prevGainDb = r.st.prevGainDb
     /\ compressorState'[0].currentGain = r.st.currentGain

\* C21: disabling a compressor channel resets its envelope and its gain to
\* their neutral values, and the first sample processed after the channel is
\* enabled again is processed as on a channel without signal history: the level
\* the envelope follows, the envelope, the gain and the sample are the same.
C21_ReenabledChannelHasNoHistory ==
  [][FirstSampleAfterReenable => AsWithoutHistory]_vars

\* What holds: disabling sets the envelope to COMP_ENVELOPE_INIT, the current
\* gain to 1.0 and the smoothed gain to 0 dB.
C21_DisableResetsEnvelopeAndGain ==
  (/\ call.op = "Compressor_SetEnabled"
   /\ call.index < AUDIO_OUTPUT_CHANNELS
   /\ call.value = 0)
    => /\ compressorState[call.index].envelope_db = COMP_ENVELOPE_INIT
       /\ compressorState[call.index].currentGain = ONE
       /\ compressorState[call.index].prevGainDb = 0

\* What holds: with the peak detector the first sample after the re-enable is
\* processed as on a channel without signal history.
C21_PeakDetectorHasNoHistory ==
  [][(FirstSampleAfterReenable /\ compressorState[0].params.useRMS = 0)
       => AsWithoutHistory]_vars

\* The RMS window of a channel that has just been disabled still holds the
\* square of a sample from before.
C21_StaleWindow ==
  /\ call.op = "Compressor_SetEnabled"
  /\ call.index = 0
  /\ call.value = 0
  /\ \E i \in 0 .. (RmsWindow - 1) : rmsBuffer[0][i] # 0
\* ---------------------------------------------------------------------
\* Changing the delay time of a channel
\* ---------------------------------------------------------------------

\* Configurations of the channel: both delays, both polarities, enabled.
DelayTimeConfigs ==
  [delayValue : {0, MaxDelaySamples}, phaseInvert : {0, 1}, enabled : {1}]

\* Samples passed through the delay line between the changes.
DelayTimeSamples == {ONE, -ONE}

NextDelayTime ==
  \/ \E c \in CallChannels, cfg \in DelayTimeConfigs : Delay_ConfigChannel(c, Ptr(cfg))
  \/ \E c \in CallChannels, t \in CallDelayTimes : Delay_SetTime(c, t)
  \/ \E x \in DelayTimeSamples : Delay_ProcessCall(0, Ptr(<<x>>), 1)

SpecDelayTime == Init /\ [][NextDelayTime]_vars

\* The step is a call that sets the delay time of a channel.
SetsDelayTime == call'.op \in {"Delay_SetTime", "Delay_ConfigChannel"}

\* The fields of a delay line a change of the delay time may write: the delay
\* in milliseconds and the delay in samples, the read offset.
ReadOffsetOf(inst) == <<inst.currentDelayMs, inst.delaySamples>>

\* The delay line without its read offset.
WithoutReadOffset(inst) == [inst EXCEPT !.currentDelayMs = 0, !.delaySamples = 0]

\* C22: a call that changes the delay time of a channel leaves the buffer
\* contents and the write index of every delay line as they were, and
\* Delay_SetTime changes nothing but the read offset of the channel.
C22_DelayTimeKeepsBufferAndWriteIndex ==
  [][SetsDelayTime =>
       /\ \A ch \in OutChannels :
            /\ delayInstances'[ch].buffer = delayInstances[ch].buffer
            /\ delayInstances'[ch].writeIndex = delayInstances[ch].writeIndex
            /\ delayInstances'[ch].prevSample = delayInstances[ch].prevSample
       /\ call'.op = "Delay_SetTime" =>
            \A ch \in OutChannels :
              /\ WithoutReadOffset(delayInstances'[ch]) = WithoutReadOffset(delayInstances[ch])
              /\ ch # call'.index => delayInstances'[ch] = delayInstances[ch]]_vars

\* Delay_SetTime has set the delay of a line that holds samples and whose
\* write index is not at the start to one sample.
C22_Witness ==
  /\ call.op = "Delay_SetTime"
  /\ ret = HAL_OK
  /\ delayInstances[call.index].delaySamples = MaxDelaySamples
  /\ delayInstances[call.index].writeIndex # 0
  /\ \E i \in DOMAIN delayInstances[call.index].buffer :
        delayInstances[call.index].buffer[i] # 0
\* ---------------------------------------------------------------------
\* The indices of the delay line
\* ---------------------------------------------------------------------

\* Delay values a caller stores with Delay_ConfigChannel, which does not check
\* them: a negative one, the range of Delay_SetTime, one sample beyond it and
\* several buffer lengths.
StoredDelays == {-1, 0, MaxDelaySamples, MaxDelaySamples + 1, 5 * MaxDelaySamples}

StoredDelayConfigs == [delayValue : StoredDelays, phaseInvert : {0}, enabled : {1}]

\* Interpolation modes a caller asks for: the two modes and an unknown one.
CallInterpolationModes ==
  {DELAY_INTERPOLATION_LINEAR, DELAY_INTERPOLATION_CUBIC, "DELAY_INTERPOLATION_OTHER"}

NextDelayBounds ==
  \/ \E cfg \in StoredDelayConfigs : Delay_ConfigChannel(0, Ptr(cfg))
  \/ \E t \in CallDelayTimes : Delay_SetTime(0, t)
  \/ \E m \in CallInterpolationModes : Delay_SetInterpolationMode(m)
  \/ Delay_FlushBuffer(0)
  \/ Delay_ProcessCall(0, Ptr(<<ONE>>), 1)

SpecDelayBounds == Init /\ [][NextDelayBounds]_vars

\* The positions of the buffer ProcessSampleWithDelay reads for the next
\* sample of the line.
Delay_ReadPositions(inst) ==
  IF interpolationMode = DELAY_INTERPOLATION_LINEAR
  THEN InterpolateLinearPositions(inst.bufferSize, Delay_ReadIndex(inst))
  ELSE InterpolateCubicPositions(inst.bufferSize, Delay_ReadIndex(inst))

\* What the conversion (int32_t)readPos can yield for a read position that is
\* not a number or beyond the range of int32_t, where C leaves it undefined:
\* the ends of the range, 0 and -1.
CastOutcomes == {-2147483647 - 1, -1, 0, 2147483647}

\* C23: whatever delay value is stored, the write index of every delay line
\* is in [0, bufferSize), and so is every position the interpolator reads for
\* a sample, two for the linear and four for the cubic interpolation; the
\* same holds for whatever integer the conversion of the read position yields.
C23_DelayIndicesWithinBuffer ==
  \A ch \in OutChannels :
    LET inst == delayInstances[ch]
        inside == 0 .. (inst.bufferSize - 1)
    IN /\ inst.writeIndex \in inside
       /\ Delay_ReadPositions(inst) \subseteq inside
       /\ DOMAIN inst.buffer = inside
       /\ \A v \in CastOutcomes :
            /\ InterpolateLinearPositions(inst.bufferSize,
                                          ModuloBufferSize(v, inst.bufferSize)) \subseteq inside
            /\ InterpolateCubicPositions(inst.bufferSize,
                                         ModuloBufferSize(v, inst.bufferSize)) \subseteq inside

\* A sample has gone through a line whose stored delay is longer than the
\* buffer, with the cubic interpolation, and the write index has wrapped.
C23_Witness ==
  /\ call.op = "Delay_Process"
  /\ ret = HAL_OK
  /\ interpolationMode = DELAY_INTERPOLATION_CUBIC
  /\ delayInstances[call.index].enabled = 1
  /\ delayInstances[call.index].delaySamples > delayInstances[call.index].bufferSize
  /\ delayInstances[call.index].writeIndex = 0
  /\ delayInstances[call.index].buffer[delayInstances[call.index].bufferSize - 1] # 0
\* ---------------------------------------------------------------------
\* Stereo link of the routing matrix
\* ---------------------------------------------------------------------

\* The channels of the first pair and the first invalid channel; the first
\* pair and the first invalid pair.
LinkChannels == {0, 1, AUDIO_OUTPUT_CHANNELS}
LinkPairs == {0, AUDIO_OUTPUT_CHANNELS \div 2}

\* Sources and mix levels a caller passes.
LinkSources == {AUDIO_SOURCE_IN1, AUDIO_SOURCE_IN1_IN2_MIX, AUDIO_SOURCE_IN1_ONLY_LEFT,
                AUDIO_SOURCE_MAX}
LinkMixLevels == {0, 2 * ONE}

\* Configurations a caller restores with AudioRouting_SetConfig: the default
\* one, and one with the first pair linked, channel 0 muted and both channels
\* of the pair on the first input.
LinkedUnmirroredConfig ==
  [AudioRouting_Init EXCEPT !.source[1] = AUDIO_SOURCE_IN1, !.outputMute[0] = 1]
LinkConfigs == {NULL, Ptr(AudioRouting_Init), Ptr(LinkedUnmirroredConfig)}

NextStereoLink ==
  \/ \E c \in LinkChannels, src \in LinkSources : AudioRouting_ConfigOutput(c, src)
  \/ \E c \in LinkChannels, l \in LinkMixLevels : AudioRouting_SetMixLevel(c, l)
  \/ \E c \in LinkChannels, st \in {0, 1} : AudioRouting_SetMute(c, st)
  \/ \E pair \in LinkPairs, st \in {0, 1} : AudioRouting_SetStereoLink(pair, st)
  \/ \E cfg \in LinkConfigs : AudioRouting_SetConfig(cfg)

SpecStereoLink == Init /\ [][NextStereoLink]_vars

RoutingControlOps ==
  {"AudioRouting_ConfigOutput", "AudioRouting_SetMixLevel", "AudioRouting_SetMute",
   "AudioRouting_SetStereoLink", "AudioRouting_SetConfig"}

SourcesCorrespond(cfg, pair) == cfg.source[2 * pair + 1] = PairedSource(cfg.source[2 * pair])
MutesEqual(cfg, pair) == cfg.outputMute[2 * pair + 1] = cfg.outputMute[2 * pair]
MixLevelsEqual(cfg, pair) == cfg.mixLevel[2 * pair + 1] = cfg.mixLevel[2 * pair]

\* C24: after any routing control call, the two channels of every pair whose
\* stereo link is on have the same mute state and the same mix level, and
\* their sources correspond (first and second input, left and right swapped).
C24_LinkedPairIsMirrored ==
  call.op \in RoutingControlOps =>
    \A pair \in DOMAIN audioRoutingConfig.stereoLink :
      audioRoutingConfig.stereoLink[pair] # 0 =>
        /\ SourcesCorrespond(audioRoutingConfig, pair)
        /\ MutesEqual(audioRoutingConfig, pair)
        /\ MixLevelsEqual(audioRoutingConfig, pair)

\* What holds: a call that sets the source, the mix level or the mute state of
\* a channel whose pair is linked leaves that setting mirrored in the pair.
C24_LinkedSetterMirrorsItsField ==
  [][(/\ call'.op \in {"AudioRouting_ConfigOutput", "AudioRouting_SetMixLevel",
                       "AudioRouting_SetMute"}
      /\ call'.index < AUDIO_OUTPUT_CHANNELS
      /\ call'.op = "AudioRouting_ConfigOutput" => call'.value < AUDIO_SOURCE_MAX
      /\ audioRoutingConfig.stereoLink[call'.index \div 2] # 0)
       => LET pair == call'.index \div 2
          IN /\ call'.op = "AudioRouting_ConfigOutput"
                  => SourcesCorrespond(audioRoutingConfig', pair)
             /\ call'.op = "AudioRouting_SetMixLevel"
                  => MixLevelsEqual(audioRoutingConfig', pair)
             /\ call'.op = "AudioRouting_SetMute"
                  => MutesEqual(audioRoutingConfig', pair)]_vars

\* The link of the first pair has just been switched on while the two
\* channels are muted differently.
C24_LinkedWhileDifferent ==
  /\ call.op = "AudioRouting_SetStereoLink"
  /\ call.index = 0
  /\ audioRoutingConfig.stereoLink[0] = 1
  /\ ~MutesEqual(audioRoutingConfig, 0)

\* ---------------------------------------------------------------------
\* Order of a Linkwitz-Riley crossover
\* ---------------------------------------------------------------------

\* Response types and orders a caller sets, in any sequence: the three
\* types and a value above them, odd and even orders and the two orders
\* next to the accepted range; the low-pass and the band-pass mode.
OrderTypes == CrossoverTypes \cup {"ABOVE_BESSEL"}
OrderOrders == {0, 1, 2, 3, 4, MAX_FILTER_ORDER, MAX_FILTER_ORDER + 1}
OrderModes == {CROSSOVER_MODE_LOWPASS, CROSSOVER_MODE_BANDPASS}

NextOrder ==
  \/ \E t \in OrderTypes : Crossover_SetFilterType(0, t)
  \/ \E o \in OrderOrders : Crossover_SetOrder(0, o)
  \/ \E m \in OrderModes : Crossover_SetFilterMode(0, m)

SpecOrder == Init /\ [][NextOrder]_vars

\* C25: whenever the response type of a crossover channel is Linkwitz-Riley,
\* the order its filters are built from (the order of its configuration,
\* which CalculateFilterCoefficients reads) is even, whatever the sequence
\* in which type and order were set.
C25_LinkwitzRileyOrderIsEven ==
  \A ch \in OutChannels :
    crossoverConfig[ch].type = CROSSOVER_TYPE_LINKWITZ_RILEY
      => crossoverConfig[ch].order % 2 = 0

\* The part that holds: an order set while the type is Linkwitz-Riley is
\* stored rounded up to the next even order, and an order set under another
\* type is stored as requested.
C25_SetOrderRoundsUpUnderLinkwitzRiley ==
  (call.op = "Crossover_SetOrder" /\ ret = "0")
    => crossoverConfig[call.index].order =
         IF crossoverConfig[call.index].type = CROSSOVER_TYPE_LINKWITZ_RILEY
         THEN 2 * ((call.value + 1) \div 2) ELSE call.value

\* An odd order was set under another type and the type then set to
\* Linkwitz-Riley: the chain is built from the odd order, with the gain
\* compensation of that order.
C25_OddOrderThenLinkwitzRiley ==
  /\ call.op = "Crossover_SetFilterType" /\ ret = "0"
  /\ call.value = CROSSOVER_TYPE_LINKWITZ_RILEY
  /\ crossoverConfig[0].order = 3
  /\ crossoverConfig[0].filterMode = CROSSOVER_MODE_LOWPASS
  /\ lowpassFilters[0].numStages = GetNumStagesForOrder(3)
  /\ lowpassFilters[0].gain = ComputeGainCompensation(CROSSOVER_TYPE_LINKWITZ_RILEY, 3)

\* ---------------------------------------------------------------------
\* The frequency the coefficients are computed from
\* ---------------------------------------------------------------------

\* Frequencies a caller passes: below 20 Hz, within the range, 20 kHz, the
\* Nyquist frequency of 48 kHz and above it; sample rates of 48 and 32 kHz.
ClampFrequencies == {10, 1000, 20000, 24000, 30000}
ClampSampleRates == {AUDIO_SAMPLE_RATE, 32000}

ClampBiquadConfigs ==
  [type : {BIQUAD_TYPE_LPF, BIQUAD_TYPE_PEAK}, frequency : ClampFrequencies,
   Q : {7}, gainDB : {6}, sampleRate : ClampSampleRates]

ClampBands ==
  [type : {PEQ_TYPE_BELL, PEQ_TYPE_LOW_PASS}, frequency : ClampFrequencies \cup {-5},
   gain : {6}, q : {7}, enabled : {1}]

NextClamp ==
  \/ \E cfg \in ClampBiquadConfigs : Biquad_InitCall(cfg)
  \/ \E cfg \in ClampBands : PEQ_ConfigureBand(0, 0, Ptr(cfg))

SpecClamp == Init /\ [][NextClamp]_vars

\* The frequency limited to [20, min(20000, sampleRate/2 - 1)] Hz.
ClampedFrequency(freq, sampleRate) ==
  CLAMP(freq, 20, MIN(20000, sampleRate \div 2 - 1))

\* C26: every coefficient computation works on the frequency limited to
\* [20, min(20000, sampleRate/2 - 1)] Hz: the coefficients Biquad_Init and
\* PEQ_ConfigureBand leave are those of the limited frequency, whatever
\* frequency the caller passed.
C26_CoefficientsOfClampedFrequency ==
  /\ (call.op = "Biquad_Init" /\ call.value.sampleRate > 0)
       => BiquadCoefficients(filterState) =
            BiquadCoefficients(Biquad_CalculateCoefficients(Biquad_Zero,
              [call.value EXCEPT
                 !.frequency = ClampedFrequency(@, call.value.sampleRate)]))
  /\ (call.op = "PEQ_ConfigureBand" /\ ret = HAL_OK)
       => BiquadCoefficients(PEQBiquadStates[call.index[1]][call.index[2]]) =
            BiquadCoefficients(PEQ_UpdateFilterCoefficients(Biquad_Zero,
              [call.value.v EXCEPT
                 !.frequency = ClampedFrequency(@, AUDIO_SAMPLE_RATE)]))

\* The part that holds: PEQ_ConfigureBand stores the frequency limited to
\* [20, 20000] Hz and the PEQ_Calculate* functions take sine and cosine at a
\* frequency within [20, min(20000, sampleRate/2 - 1)] Hz, the coefficients
\* being those of that frequency.
C26_PeqFrequencyIsClamped ==
  (call.op = "PEQ_ConfigureBand" /\ ret = HAL_OK)
    => LET band == PEQBands[call.index[1]][call.index[2]]
           used == PEQ_SafeFreq(band.frequency, AUDIO_SAMPLE_RATE)
       IN /\ used = ClampedFrequency(call.value.v.frequency, AUDIO_SAMPLE_RATE)
          /\ BiquadCoefficients(PEQBiquadStates[call.index[1]][call.index[2]]) =
               BiquadCoefficients(PEQ_UpdateFilterCoefficients(Biquad_Zero,
                 [call.value.v EXCEPT !.frequency = used]))

\* Biquad_Init was called with a frequency above the Nyquist frequency and
\* has computed coefficients that are not those of the limited frequency;
\* and PEQ_ConfigureBand with such a frequency.
C26_BiquadAboveNyquist ==
  /\ call.op = "Biquad_Init"
  /\ 2 * call.value.frequency > call.value.sampleRate
  /\ BiquadCoefficients(filterState) #
       BiquadCoefficients(Biquad_CalculateCoefficients(Biquad_Zero,
         [call.value EXCEPT !.frequency = ClampedFrequency(@, call.value.sampleRate)]))

C26_PeqAboveRange ==
  /\ call.op = "PEQ_ConfigureBand" /\ ret = HAL_OK
  /\ call.value.v.frequency > PEQ_MAX_FREQ
  /\ PEQBands[0][0].frequency = PEQ_MAX_FREQ

\* ---------------------------------------------------------------------
\* The halves of the input buffer and the pipeline
\* ---------------------------------------------------------------------

\* The two receive interrupts arrive at any point of the main loop, in the
\* sequence in which the DMA completes the halves; the main loop tests and
\* clears the flag and then runs the pipeline.
NextHalves ==
  \/ HAL_I2S_RxHalfCpltCallback
  \/ HAL_I2S_RxCpltCallback
  \/ MainLoop_ClearAudioFlag
  \/ MainLoop_Pipeline

SpecHalves == Init /\ [][NextHalves]_vars

\* C27: every half-buffer the input DMA has completed is processed by the
\* pipeline exactly once, under every interleaving of the interrupts with
\* the main loop: the blocks the pipeline has read are the blocks 1, 2, 3,
\* ... in sequence, none left out and none read twice.
C27_EachHalfProcessedOnce ==
  \A i \in DOMAIN processedBlocks : processedBlocks[i] = i

\* The part that holds: the pipeline never runs without an interrupt since
\* its last run, the block it reads is the one completed last, and it never
\* goes back to an earlier block.
C27_PipelineReadsLastBlock ==
  [][processedBlocks' # processedBlocks
       => /\ processedBlocks' = Append(processedBlocks, LastBlock)
          /\ LastBlock >= 1
          /\ \A i \in DOMAIN processedBlocks : processedBlocks[i] <= LastBlock]_vars

\* A block was left out: the second half was completed before the main loop
\* had read the first.
C27_HalfSkipped ==
  /\ Len(processedBlocks) >= 1
  /\ processedBlocks[1] = 2

\* A block was read twice: the interrupt arrived between the clearing of
\* the flag and the read, and the flag it raised started a second run.
C27_HalfProcessedTwice ==
  \E i \in DOMAIN processedBlocks :
    i > 1 /\ processedBlocks[i] = processedBlocks[i - 1]

\* ---------------------------------------------------------------------
\* Initialisation of the crossover module
\* ---------------------------------------------------------------------

\* Crossover_Init on the module as the start-up code leaves it and on a
\* module that is initialised, with every outcome of the allocations;
\* Crossover_DeInit; Crossover_UpdateCoefficients on valid and invalid
\* channels.
InitSampleRates == {AUDIO_SAMPLE_RATE}
InitChannelArgs == {0, 2, AUDIO_OUTPUT_CHANNELS}

NextCrossoverInit ==
  \/ \E sr \in InitSampleRates, heap \in [OutChannels -> HeapOutcomes] :
        Crossover_Init(sr, heap)
  \/ Crossover_DeInit
  \/ \E ch \in InitChannelArgs, allocated \in BOOLEAN :
        Crossover_UpdateCoefficients(ch, allocated)

SpecCrossoverInit == Init /\ [][NextCrossoverInit]_vars

\* The coefficient arrays of a channel hold the coefficients computed for
\* its settings.
CoefficientsComputed(filter) ==
  LET coeffs == Crossover_CalculateCoefficients(filter.type, filter.order,
                  filter.frequency, filter.sampleRate, TRUE)
  IN /\ ~filter.highpass.coef.null /\ ~filter.lowpass.coef.null
     /\ ~coeffs.null
     /\ filter.highpass.coef.v = coeffs.v.highpass
     /\ filter.lowpass.coef.v = coeffs.v.lowpass

\* C28: when Crossover_Init has returned success, the filter coefficients
\* of every output channel have been computed for its default configuration.
C28_InitComputesCoefficients ==
  (call.op = "Crossover_Init" /\ ret = "0")
    => \A ch \in OutChannels : CoefficientsComputed(crossoverFilters[ch])

\* The part that holds: Crossover_Init leaves the default settings in every
\* channel and the module initialised, and a Crossover_UpdateCoefficients
\* that returns 0 afterwards leaves the computed coefficients in a channel
\* that has memory.
C28_InitStoresDefaults ==
  (call.op = "Crossover_Init" /\ ret = "0")
    => /\ crossoverIsInitialized = 1
       /\ \A ch \in OutChannels :
            /\ crossoverFilters[ch].type = CROSSOVER_TYPE_LINKWITZ_RILEY
            /\ crossoverFilters[ch].order = 4
            /\ crossoverFilters[ch].frequency = 80
            /\ crossoverFilters[ch].sampleRate = call.value
            /\ crossoverFilters[ch].filterMode = Crossover_StandardMode(ch)

C28_UpdateComputesCoefficients ==
  (call.op = "Crossover_UpdateCoefficients" /\ ret = "0"
     /\ crossoverFilters[call.index].highpass.sections > 0)
    => CoefficientsComputed(crossoverFilters[call.index])

\* Crossover_Init has returned success with every allocation successful, and
\* the coefficient arrays hold what the heap held.
C28_HeapContentsAfterInit ==
  /\ call.op = "Crossover_Init" /\ ret = "0"
  /\ \A ch \in OutChannels :
       /\ crossoverFilters[ch].highpass.sections = 2
       /\ crossoverFilters[ch].highpass.coef = Ptr([i \in 1 .. 2 |-> [k \in 1 .. 5 |-> ONE]])

\* A later Crossover_UpdateCoefficients has computed the coefficients of a
\* channel.
C28_ComputedByUpdate ==
  /\ call.op = "Crossover_UpdateCoefficients" /\ ret = "0"
  /\ CoefficientsComputed(crossoverFilters[call.index])

\* ---------------------------------------------------------------------
\* The delay lines after Delay_DeInit
\* ---------------------------------------------------------------------

\* Channels, configurations and samples of the calls around Delay_DeInit
\* and Delay_Init: channels 0 and 2 are configured, channel 0 is processed;
\* an allocation of Delay_Init fails at channel 1 or at none.
ReleaseChannels == {0, 2}
ReleaseConfigs == [delayValue : {MaxDelaySamples}, phaseInvert : {0}, enabled : {0, 1}]
ReleaseSamples == {ONE}
ReleaseInitConfigs ==
  {NULL, Ptr([sampleRate |-> AUDIO_SAMPLE_RATE, maxDelayMs |-> MaxDelaySamples])}
ReleaseFailures == {1, AUDIO_OUTPUT_CHANNELS}

NextRelease ==
  \/ Delay_DeInit
  \/ \E cfg \in ReleaseInitConfigs, failAt \in ReleaseFailures : Delay_Init(cfg, failAt)
  \/ \E c \in ReleaseChannels, cfg \in ReleaseConfigs : Delay_ConfigChannel(c, Ptr(cfg))
  \/ Delay_SetTime(0, 0)
  \/ Delay_FlushBuffer(0)
  \/ \E x \in ReleaseSamples : Delay_ProcessCall(0, Ptr(<<x>>), 1)

SpecRelease == Init /\ [][NextRelease]_vars

\* The step is a call that goes to the buffer of a channel: a Delay_Process
\* that runs the delay line, or a Delay_FlushBuffer that clears it.
GoesToBuffer(ch) ==
  \/ /\ call'.op = "Delay_Process" /\ call'.index = ch
     /\ ~call'.value.buf.null /\ call'.value.size # 0
     /\ delayInstances[ch].isActive # 0 /\ delayInstances[ch].enabled # 0
  \/ /\ call'.op = "Delay_FlushBuffer" /\ call'.index = ch
     /\ delayInstances[ch].isActive # 0

\* C29: after Delay_DeInit has released the delay buffers, no processing or
\* configuration call reads or writes a released buffer: no call goes to
\* the buffer of a channel whose buffer pointer is NULL.
C29_NoCallUsesReleasedBuffer ==
  [][\A ch \in OutChannels :
       delayInstances[ch].bufferIsNull # 0 => ~GoesToBuffer(ch)]_vars

\* The same seen in the state: a channel whose buffer is released is not
\* marked active.  Delay_DeInit leaves isActive as it was, so this fails too.
C29_ReleasedChannelIsInactive ==
  \A ch \in OutChannels :
    delayInstances[ch].bufferIsNull # 0 => delayInstances[ch].isActive = 0

\* The part that holds: Delay_ConfigChannel, the one call that marks a
\* channel active, is accepted only while the system is initialised and the
\* buffer of the channel is allocated; and a successful Delay_Init leaves
\* every channel inactive with a cleared buffer of its own.
C29_ActivationNeedsBuffer ==
  /\ (call.op = "Delay_ConfigChannel" /\ ret = HAL_OK)
       => /\ isDelaySystemInitialized = 1
          /\ delayInstances[call.index].bufferIsNull = 0
  /\ (call.op = "Delay_Init" /\ ret = HAL_OK)
       => /\ isDelaySystemInitialized = 1
          /\ \A ch \in OutChannels : delayInstances[ch] = Delay_InitInstance
  /\ isDelaySystemInitialized = 1
       => \A ch \in OutChannels : delayInstances[ch].bufferIsNull = 0

\* Delay_Process has run the delay line of a channel after Delay_DeInit and
\* has returned what the read through the NULL pointer gave.
C29_ProcessedAfterDeInit ==
  /\ call.op = "Delay_Process" /\ ret = HAL_OK
  /\ isDelaySystemInitialized = 0
  /\ Delay_ActiveWithoutBuffer(call.index)
  /\ delayInstances[call.index].enabled # 0
  /\ procBuffer # call.value.buf

\* ---------------------------------------------------------------------
\* The cutoffs of a band-pass channel
\* ---------------------------------------------------------------------

\* Cutoffs requested from Crossover_SetFrequency of crossover_filter.c, at
\* and around the ends of its range, and the modes switched between.
BandFrequencies == {10, 20, 25, 30, 19995, 20000, 30000}
BandModes == {CROSSOVER_MODE_LOWPASS, CROSSOVER_MODE_BANDPASS}

\* Requests to crossover_config.c: cutoffs, the configurations handed to
\* Crossover_Config_Set and found in the EEPROM, presets, channels.
BandConfigFrequencies == {10, 500, 3000, 30000}
BandSettings ==
  {NULL} \cup {Ptr(CrossoverSetting(hp, lp, bp)) :
                 hp \in {10, 3000}, lp \in {500, 3000}, bp \in {0, 1}}
BandPresets == {1, 4, 5}
BandConfigChannels == {1, AUDIO_OUTPUT_CHANNELS}

NextBandPass ==
  \/ \E t \in {CROSSOVER_FREQ_LOW, CROSSOVER_FREQ_HIGH}, f \in BandFrequencies :
       Crossover_SetFrequency(0, t, f)
  \/ \E m \in BandModes : Crossover_SetFilterMode(0, m)

SpecBandPass == Init /\ [][NextBandPass]_vars

\* The control calls of crossover_config.c, which keeps cutoffs of its own.
NextBandPassConfig ==
  \/ \E c \in BandConfigChannels, f \in BandConfigFrequencies :
       Crossover_Config_SetHighPassFreq(c, f)
  \/ \E c \in BandConfigChannels, f \in BandConfigFrequencies :
       Crossover_Config_SetLowPassFreq(c, f)
  \/ \E c \in BandConfigChannels, e \in {0, 1} : Crossover_Config_SetBandPassMode(c, e)
  \/ \E c \in BandConfigChannels, cfg \in BandSettings :
       Crossover_Config_Set(c, cfg)
  \/ \E c \in BandConfigChannels : Crossover_Config_ResetToDefault(c)
  \/ \E p \in BandPresets : Crossover_Config_ApplyPreset(p)
  \/ \E cfg \in BandSettings :
       Crossover_Config_Init(IF cfg.null THEN NULL ELSE Ptr([ch \in OutChannels |-> cfg.v]))

SpecBandPassConfig == Init /\ [][NextBandPassConfig]_vars

\* The cutoffs of a band: the lower strictly below the upper, both in
\* [20, 20000] Hz.
BandIsValid(lower, upper) ==
  /\ lower < upper
  /\ lower >= 20 /\ lower <= 20000
  /\ upper >= 20 /\ upper <= 20000

\* C30: after any sequence of crossover control calls, whenever a channel is
\* in band-pass mode its high-pass (lower) cutoff is strictly below its
\* low-pass (upper) cutoff and both cutoffs are within [20, 20000] Hz; in
\* crossover_filter.c and in crossover_config.c.
C30_BandPassCutoffsValid ==
  /\ \A ch \in OutChannels :
       crossoverConfig[ch].filterMode = CROSSOVER_MODE_BANDPASS
         => BandIsValid(crossoverConfig[ch].lowFrequency, crossoverConfig[ch].highFrequency)
  /\ \A ch \in OutChannels :
       crossoverSettings[ch].bandPassEnabled # 0
         => BandIsValid(crossoverSettings[ch].highPassFreq, crossoverSettings[ch].lowPassFreq)

\* The part that holds in crossover_config.c: every channel with the
\* band-pass flag set has a valid band.
C30_ConfigBandPassValid ==
  \A ch \in OutChannels :
    crossoverSettings[ch].bandPassEnabled # 0
      => BandIsValid(crossoverSettings[ch].highPassFreq, crossoverSettings[ch].lowPassFreq)

\* The part that holds in crossover_filter.c: a Crossover_SetFrequency
\* accepted in band-pass mode leaves the lower cutoff strictly below the
\* upper one, and the cutoff it was called with, when it is stored as
\* requested, is in [20, 20000] Hz.
C30_SetFrequencyOrdersBand ==
  (/\ call.op = "Crossover_SetFrequency" /\ ret = "0"
   /\ crossoverConfig[call.index].filterMode = CROSSOVER_MODE_BANDPASS)
    => /\ crossoverConfig[call.index].lowFrequency < crossoverConfig[call.index].highFrequency
       /\ call.value.frequency >= CROSSOVER_MIN_FREQ
       /\ call.value.frequency <= CROSSOVER_MAX_FREQ

\* Crossover_SetFilterMode has switched a channel to band-pass mode over
\* cutoffs set in another mode: the lower one is not below the upper one.
C30_BandPassOverUnorderedCutoffs ==
  /\ call.op = "Crossover_SetFilterMode" /\ ret = "0"
  /\ call.value = CROSSOVER_MODE_BANDPASS
  /\ crossoverConfig[call.index].lowFrequency >= crossoverConfig[call.index].highFrequency

\* Crossover_SetFrequency has moved a cutoff of a band-pass channel 10 Hz
\* away from the other one and out of the range.
C30_AdjustedOutOfRange ==
  /\ call.op = "Crossover_SetFrequency" /\ ret = "0"
  /\ crossoverConfig[call.index].filterMode = CROSSOVER_MODE_BANDPASS
  /\ crossoverConfig[call.index].lowFrequency < crossoverConfig[call.index].highFrequency
  /\ \/ crossoverConfig[call.index].lowFrequency < CROSSOVER_MIN_FREQ
     \/ crossoverConfig[call.index].highFrequency > CROSSOVER_MAX_FREQ

\* Crossover_Config_SetBandPassMode has rejected the band-pass mode for
\* cutoffs that are not in order, and the flag is as it was.
C30_ConfigRejectsUnorderedBand ==
  /\ call.op = "Crossover_Config_SetBandPassMode" /\ ret = HAL_ERROR
  /\ call.index < AUDIO_OUTPUT_CHANNELS
  /\ crossoverSettings[call.index].bandPassEnabled = 0
  /\ crossoverSettings[call.index].highPassFreq >= crossoverSettings[call.index].lowPassFreq

====
